---- MODULE Spec2Model ----
(***************************************************************************)
(* Training-job lifecycle subsystem of the automation package:             *)
(*   - LogParser / TrainingMonitor   (src/automation/monitor.py)           *)
(*   - BackgroundMonitor             (src/automation/monitor_extras.py)    *)
(*   - ExperimentManager(Extended)   (src/automation/experiment_manager*.py)*)
(*   - TrainingOrchestrator          (src/automation/orchestrator.py)      *)
(***************************************************************************)
EXTENDS Integers, Sequences, FiniteSets, TLC

\* ------------------------------------------------------------------ bounds
MaxStep == 2        \* largest step value a log line carries
MaxLines == 3       \* lines written to the log in the monitor specification
MaxNotifyLines == 2 \* lines of the log in the observer specification
MaxCallbacks == 2   \* observers registered on the monitor
MaxClock == 1       \* seconds that pass on the wall clock
MaxRunLines == 2    \* lines written to the log during a run of the orchestrator
MaxOrphans == 2     \* live polling threads that _monitor_thread no longer refers to
MaxJobLines == 1    \* lines of the log in the watched-set specification
MaxParseLines == 2  \* lines of the file in the parser specification

\* ------------------------------------------------------------------ values
None == "None"

\* TrainingJob objects and their job_id; both are constructed on the same
\* output_dir, so both tail the same trainer_log.jsonl
JobObjs == {"j1", "j2"}
JobIds == {"a", "b"}
job_id(j) == IF j = "j1" THEN "a" ELSE "b"
output_dir(j) == "d1"

\* a third TrainingJob, constructed with the job_id of "j2"
AllJobObjs == JobObjs \cup {"j3"}

\* Directories: "d1" is experiments_dir/<id>/output, the output_dir of an
\* experiment record and of the jobs above; "d2" is the output_dir that the
\* training config names (output_base/<output_name>)
Dirs == {"d1", "d2"}

\* TrainingJob.status as given at construction: running, or any other value
JobStatuses == {"running", "stopped"}

\* Observers: one that returns normally, one that raises Exception on every call
CallbackKinds == {"ok", "raises"}

\* Log lines.  "metrics": a JSON object with a loss key and, when hasStep, a
\* step key; "text": free text without any keyword; "scalar": valid JSON that
\* is not an object (a number, null).
MetricsLine(hs, s, l) == [kind |-> "metrics", hasStep |-> hs, step |-> s, loss |-> l]
TextLine == [kind |-> "text", hasStep |-> FALSE, step |-> 0, loss |-> 0]
ScalarLine == [kind |-> "scalar", hasStep |-> FALSE, step |-> 0, loss |-> 0]

\* Further lines.  "string": a JSON string without a keyword in it ("abc");
\* "list": a JSON list of numbers ([1]); "badvalue": a JSON object whose loss
\* is null or a word ({"loss": null}); "badtoken": free text whose loss keyword
\* is followed by digits and dots that are not a number (loss: 1.2.3);
\* "word": free text whose loss keyword is followed by a word (loss: abc)
StringLine == [kind |-> "string", hasStep |-> FALSE, step |-> 0, loss |-> 0]
ListLine == [kind |-> "list", hasStep |-> FALSE, step |-> 0, loss |-> 0]
BadValueLine == [kind |-> "badvalue", hasStep |-> FALSE, step |-> 0, loss |-> 0]
BadTokenLine == [kind |-> "badtoken", hasStep |-> FALSE, step |-> 0, loss |-> 0]
WordLine == [kind |-> "word", hasStep |-> FALSE, step |-> 0, loss |-> 0]

\* the lines of the parser specification
ParseLines ==
    {MetricsLine(TRUE, s, 1) : s \in 1..MaxStep}
        \cup {TextLine, ScalarLine, StringLine, ListLine, BadValueLine,
              BadTokenLine, WordLine}

\* the lines written in the monitor specification: steps that repeat, decrease
\* or are missing, and a line on which parse_line raises
MonitorLines ==
    {MetricsLine(TRUE, s, 1) : s \in 1..MaxStep}
        \cup {MetricsLine(FALSE, 0, 1), ScalarLine}

\* the lines written during a run of the orchestrator: losses that fall, a
\* loss of 0 without step, and a line on which parse_line raises
RunLines ==
    {MetricsLine(TRUE, 1, 2), MetricsLine(TRUE, 2, 1), MetricsLine(FALSE, 0, 0),
     ScalarLine}

\* the lines written in the observer specification
NotifyLines == {MetricsLine(TRUE, s, 1) : s \in {1, 2}}

\* ------------------------------------------------------------------ LogParser
\* TrainingMetrics(): step defaults to 0
TrainingMetrics(s, l) == [step |-> s, loss |-> l]

\* parse_line: a record, None, or an exception that escapes (only
\* json.JSONDecodeError is caught).  On a number or null `'loss' in data`
\* raises TypeError (line 87); on an object whose loss is null or a word
\* float() raises TypeError or ValueError (line 88); on text the pattern
\* [0-9.]+ takes "1.2.3" and float() raises ValueError (line 117).  A JSON
\* string or list without the keys, text without keywords and text whose
\* keyword is followed by a word (no match of the pattern) give None.
parse_line(line) ==
    CASE line.kind = "metrics" ->
            [tag |-> "metrics",
             m |-> TrainingMetrics(IF line.hasStep THEN line.step ELSE 0, line.loss)]
      [] line.kind \in {"scalar", "badvalue", "badtoken"} ->
            [tag |-> "raise", m |-> TrainingMetrics(0, 0)]
      [] OTHER -> [tag |-> "none", m |-> TrainingMetrics(0, 0)]

RECURSIVE parse_lines(_)
\* the for loop of parse_file (lines 132-135): the records yielded and
\* whether an exception of parse_line ended the generator
parse_lines(ls) ==
    IF ls = <<>> THEN [records |-> <<>>, raised |-> FALSE]
    ELSE LET r == parse_line(Head(ls)) IN
         IF r.tag = "raise" THEN [records |-> <<>>, raised |-> TRUE]
         ELSE LET rest == parse_lines(Tail(ls)) IN
              [records |-> (IF r.tag = "metrics" THEN <<r.m>> ELSE <<>>) \o rest.records,
               raised |-> rest.raised]

\* parse_file, consumed to its end: nothing when the file does not exist
\* (lines 128-129)
parse_file(f) ==
    IF ~f.exists THEN [records |-> <<>>, raised |-> FALSE] ELSE parse_lines(f.lines)

\* ------------------------------------------------------------------ state
VARIABLES
    files,            \* Dirs -> [exists, lines]: trainer_log.jsonl of each directory
    jobs,             \* TrainingMonitor.jobs: the watched objects, in dict (insertion) order
    job_status,       \* TrainingJob.status of each object
    metrics_history,  \* TrainingJob.metrics_history of each object
    callbacks,        \* TrainingMonitor.callbacks, in registration order
    monitoring,       \* TrainingMonitor._monitoring
    monitor_thread,   \* TrainingMonitor._monitor_thread (None or "th")
    loop,             \* the polling thread: position in _monitor_loop/_check_job/_notify,
                      \* the list its pass iterates over (snap), the objects
                      \* _check_job was called on in the pass (polled) and
                      \* the rest of the list (todo)
    orphans,          \* the live polling threads of earlier start() calls
    stopping,         \* a stop() call is at its join (monitor_extras line 33)
    deliveries,       \* observer invocations, in order
    written,          \* number of lines written so far
    passes,           \* bookkeeping of completed _check_job calls, per object
    appended,         \* per object and record of metrics_history: the number of
                      \* callbacks registered when the record was appended
    clock,            \* datetime.now(), in seconds
    experiments,      \* ExperimentManager.experiments: id -> Experiment
    index_file,       \* experiments_index.json
    peer,             \* a second ExperimentManager on the same directory:
                      \* whether it is constructed, and its experiments map
    returned,         \* what the last call on the registry returned
    eval_file,        \* all_results.json of the output directory
    run,              \* the run_training_cli call: its position and locals
    active_monitors,  \* TrainingOrchestrator.active_monitors (its keys)
    spawned,          \* number of subprocess.run calls made
    sweep             \* the run_parameter_sweep call: its position, its
                      \* sequential argument, experiment_ids, and the number
                      \* of live polling threads of monitors of earlier runs

vars == <<files, jobs, job_status, metrics_history, callbacks, monitoring,
          monitor_thread, loop, orphans, stopping, deliveries, written, passes,
          appended, clock, experiments, index_file, peer, returned, eval_file, run,
          active_monitors, spawned, sweep>>

\* the variables of the monitor, of the registry and of the orchestrator
monVars == <<jobs, job_status, metrics_history, callbacks, monitoring,
             monitor_thread, loop, orphans, stopping, deliveries, passes, appended>>
threadVars == <<orphans, stopping>>
storeVars == <<clock, experiments, index_file, peer, returned>>
runVars == <<run, active_monitors, spawned, eval_file, sweep>>

\* the polling thread is not running
LoopOff == [pc |-> "off", snap |-> <<>>, polled |-> <<>>, todo |-> <<>>,
            job |-> None, pos |-> 0, last_step |-> -1,
            m |-> TrainingMetrics(0, 0), ni |-> 0]

\* no _check_job call on the object has returned yet
\* run_parameter_sweep has not been called
NoSweep == [pc |-> "idle", sequential |-> TRUE, ids |-> <<>>, old |-> 0]

NoPass == [done |-> 0, hist |-> <<>>, ndeliv |-> 0, clean |-> FALSE, repeat |-> FALSE]

\* a new ExperimentManager on an empty directory, an orchestrator that has
\* not been called
NoRun == [pc |-> "idle", id |-> <<>>, monitor |-> FALSE, notify |-> FALSE,
          rc |-> -1, exc |-> "none", res |-> <<>>, ret |-> <<>>]

InitRegistry ==
    /\ clock = 0
    /\ experiments = <<>>
    /\ index_file = [exists |-> FALSE, updated_at |-> <<>>, doc |-> <<>>]
    /\ peer = [constructed |-> FALSE, experiments |-> <<>>]
    /\ returned = [op |-> "none", value |-> "None"]
    /\ eval_file = "absent"
    /\ run = NoRun
    /\ active_monitors = {}
    /\ spawned = 0
    /\ sweep = NoSweep

Init ==
    /\ files = [d \in Dirs |-> [exists |-> FALSE, lines |-> <<>>]]
    /\ jobs = <<>>
    /\ job_status = [j \in JobObjs |-> "running"]
    /\ metrics_history = [j \in JobObjs |-> <<>>]
    /\ callbacks = <<>>
    /\ monitoring = FALSE
    /\ monitor_thread = None
    /\ loop = LoopOff
    /\ orphans = <<>>
    /\ stopping = FALSE
    /\ deliveries = <<>>
    /\ written = 0
    /\ passes = [j \in JobObjs |-> NoPass]
    /\ appended = [j \in JobObjs |-> <<>>]
    /\ InitRegistry

\* ------------------------------------------------------------------ helpers
Last(s) == s[Len(s)]

\* the sequences over S of length at most n
SeqsUpTo(S, n) == UNION {[1..k -> S] : k \in 0..n}

RECURSIVE SeqFilterOut(_, _)
\* the sequence without its entries of job_id i
SeqFilterOut(s, i) ==
    IF s = <<>> THEN <<>>
    ELSE IF job_id(Head(s)) = i THEN SeqFilterOut(Tail(s), i)
         ELSE <<Head(s)>> \o SeqFilterOut(Tail(s), i)

\* number of observer invocations made for object j
DeliveriesFor(j) == Cardinality({k \in 1..Len(deliveries) : deliveries[k].job = j})

\* ------------------------------------------------------------------ trainer
\* The external trainer appends one line to trainer_log.jsonl of directory d
\* (the first write creates the file).
TrainerAppend(d, line) ==
    [files EXCEPT ![d] = [exists |-> TRUE, lines |-> Append(@.lines, line)]]

\* a line was written to the log of j: the next pass over j is not a repeat
MarkWritten(d) ==
    [j \in JobObjs |-> IF output_dir(j) = d THEN [passes[j] EXCEPT !.clean = FALSE]
                       ELSE passes[j]]

TrainerWrite(d, line, max) ==
    /\ written < max
    /\ files' = TrainerAppend(d, line)
    /\ written' = written + 1
    /\ passes' = MarkWritten(d)
    /\ UNCHANGED <<jobs, job_status, metrics_history, callbacks, monitoring,
                   monitor_thread, loop, deliveries, appended,
                   storeVars, threadVars, runVars>>

\* ------------------------------------------------------------------ TrainingMonitor
\* self.jobs[job.job_id] = job : a dict assignment keeps the position of an
\* existing key and appends a new one
DictSet(js, j) ==
    IF \E k \in 1..Len(js) : job_id(js[k]) = job_id(j)
    THEN [k \in 1..Len(js) |-> IF job_id(js[k]) = job_id(j) THEN j ELSE js[k]]
    ELSE Append(js, j)

add_job(j) ==
    /\ jobs' = DictSet(jobs, j)
    /\ UNCHANGED <<files, job_status, metrics_history, callbacks, monitoring,
                   monitor_thread, loop, deliveries, written, passes, appended,
                   storeVars, threadVars, runVars>>

remove_job(i) ==
    /\ jobs' = SeqFilterOut(jobs, i)
    /\ UNCHANGED <<files, job_status, metrics_history, callbacks, monitoring,
                   monitor_thread, loop, deliveries, written, passes, appended,
                   storeVars, threadVars, runVars>>

add_callback(cb) ==
    /\ Len(callbacks) < MaxCallbacks
    /\ callbacks' = Append(callbacks, cb)
    /\ UNCHANGED <<files, jobs, job_status, metrics_history, monitoring,
                   monitor_thread, loop, deliveries, written, passes, appended,
                   storeVars, threadVars, runVars>>

\* an is_running that turns false once stop() has cleared the flag
is_running_until_stop(j) == job_status[j] = "running" /\ monitoring

\* TrainingJob.is_running
is_running(j) == job_status[j] = "running"

\* a pass that forgets what the job already holds
InitialLastStepFresh(j) == -1

\* TrainingJob.latest_metrics is metrics_history[-1] or None; _check_job line 183
InitialLastStep(j) ==
    IF metrics_history[j] # <<>> THEN Last(metrics_history[j]).step ELSE -1

\* a test that admits a repeated step
IsNewOrEqual(step, last_step) == step >= last_step

\* _check_job line 187: the test that admits a parsed record
IsNew(step, last_step) == step > last_step

\* a pass that keeps the last_step it began with
LastStepKept(last_step, m) == last_step

\* _check_job line 190: last_step after a record was appended
LastStepAfter(last_step, m) == m.step

\* the bookkeeping of a _check_job call on j that returned normally
PassDone(j) ==
    [passes EXCEPT ![j] = [done |-> IF @.done < 2 THEN @.done + 1 ELSE 2,
                           hist |-> metrics_history[j],
                           ndeliv |-> DeliveriesFor(j), clean |-> TRUE,
                           repeat |-> @.done >= 1 /\ @.clean]]

\* ------------------------------------------------------------------ BackgroundMonitor
\* the polling thread has finished
ThreadDead == loop.pc \in {"off", "exited", "crashed"}

\* start(): no-op while _monitoring, otherwise sets the flag and starts a new
\* thread; a thread of an earlier start() that is still alive goes on running,
\* no longer referred to by _monitor_thread
start ==
    \/ /\ monitoring
       /\ UNCHANGED vars
    \/ /\ ~monitoring
       /\ ~stopping
       /\ ~ThreadDead => Len(orphans) < MaxOrphans
       /\ monitoring' = TRUE
       /\ monitor_thread' = "th"
       /\ loop' = [LoopOff EXCEPT !.pc = "top"]
       /\ orphans' = IF ThreadDead THEN orphans ELSE Append(orphans, loop)
       /\ UNCHANGED <<files, jobs, job_status, metrics_history, callbacks,
                      deliveries, written, passes, appended, stopping,
                      storeVars, runVars>>

\* stop() lines 31-32: clears the flag and, when a thread reference is set,
\* goes on to join it
stop ==
    /\ ~stopping
    /\ monitoring' = FALSE
    /\ stopping' = (monitor_thread # None)
    /\ UNCHANGED <<files, jobs, job_status, metrics_history, callbacks,
                   monitor_thread, loop, orphans, deliveries, written, passes,
                   appended, storeVars, runVars>>

\* stop() lines 33-34: join(timeout=5) returns, because the thread has
\* finished or because the 5 seconds are over (a pass or, with a
\* poll_interval above 5 seconds, a sleep lasts longer); the reference is
\* dropped either way
StopJoin ==
    /\ stopping
    /\ stopping' = FALSE
    /\ monitor_thread' = None
    /\ UNCHANGED <<files, jobs, job_status, metrics_history, callbacks,
                   monitoring, loop, orphans, deliveries, written, passes,
                   appended, storeVars, runVars>>

\* ------------------------------------------------------------------ LogParser calls
\* a caller calls LogParser.parse_line on the k-th line of the file
ParseLineCall(k) ==
    /\ k \in 1..Len(files["d1"].lines)
    /\ returned' = [op |-> "parse_line", line |-> k,
                    value |-> parse_line(files["d1"].lines[k])]
    /\ UNCHANGED <<files, written, monVars, clock, experiments, index_file, peer,
                   runVars>>

\* a caller consumes LogParser.parse_file(path) to its end
ParseFileCall ==
    /\ returned' = [op |-> "parse_file", line |-> 0, value |-> parse_file(files["d1"])]
    /\ UNCHANGED <<files, written, monVars, clock, experiments, index_file, peer,
                   runVars>>

\* a for loop over the live dict view instead of a copy: the jobs watched
\* when the loop gets to them, here the first one only
SnapshotFirstOnly(js) == IF js = <<>> THEN <<>> ELSE <<Head(js)>>

\* list(self.jobs.values()) (line 40): a copy of the watched objects in dict
\* order, taken in one step
Snapshot(js) == js

\* a for loop that breaks when the flag is cleared
ForLoopOverOrStopped(todo, flag) == todo = <<>> \/ ~flag

\* the for loop of line 40 is over when its list is exhausted; the flag has
\* no part in it
ForLoopOver(todo, flag) == todo = <<>>

\* a loop whose condition is always true
WhileTrue(flag) == TRUE

\* the condition of the while loop of _monitor_loop (line 39)
WhileCondition(flag) == flag

\* the sequence without its i-th element
RemoveAt(q, i) == [k \in 1..(Len(q) - 1) |-> IF k < i THEN q[k] ELSE q[k + 1]]

\* _monitor_loop in a thread of an earlier start(): the test of the flag
\* (line 39), after which the thread goes on or exits
OrphanTop(i) ==
    /\ i \in 1..Len(orphans)
    /\ orphans[i].pc = "top"
    /\ orphans' = IF WhileCondition(monitoring)
                  THEN [orphans EXCEPT ![i] = [@ EXCEPT !.pc = "iter",
                                                        !.snap = Snapshot(jobs),
                                                        !.polled = <<>>,
                                                        !.todo = Snapshot(jobs)]]
                  ELSE RemoveAt(orphans, i)
    /\ UNCHANGED <<files, jobs, job_status, metrics_history, callbacks,
                   monitoring, monitor_thread, loop, stopping, deliveries,
                   written, passes, appended, storeVars, runVars>>

\* _monitor_loop in a thread of an earlier start(): the for loop takes the
\* next job of its snapshot, whose _check_job returns at once when the job is
\* not running or has no log file yet (lines 175-181); after the last job the
\* thread sleeps.  Such a thread reading an existing log is not modelled.
OrphanNextJob(i) ==
    /\ i \in 1..Len(orphans)
    /\ orphans[i].pc = "iter"
    /\ IF ForLoopOver(orphans[i].todo, monitoring)
       THEN /\ orphans' = [orphans EXCEPT ![i] = [@ EXCEPT !.pc = "top"]]
            /\ UNCHANGED passes
       ELSE LET j == Head(orphans[i].todo) IN
            /\ ~is_running(j) \/ ~files[output_dir(j)].exists
            /\ orphans' = [orphans EXCEPT ![i] = [@ EXCEPT !.todo = Tail(@),
                                                           !.polled = Append(@, j)]]
            /\ passes' = PassDone(j)
    /\ UNCHANGED <<files, jobs, job_status, metrics_history, callbacks,
                   monitoring, monitor_thread, loop, stopping, deliveries,
                   written, appended, storeVars, runVars>>

\* _monitor_loop line 39-40: after the sleep (or at thread start) the flag is
\* tested; when set, the pass iterates over a snapshot list(self.jobs.values())
LoopTop ==
    /\ loop.pc = "top"
    /\ loop' = IF WhileCondition(monitoring)
               THEN [loop EXCEPT !.pc = "iter", !.snap = Snapshot(jobs),
                                 !.polled = <<>>, !.todo = Snapshot(jobs)]
               ELSE [LoopOff EXCEPT !.pc = "exited"]
    /\ UNCHANGED <<files, jobs, job_status, metrics_history, callbacks, monitoring,
                   monitor_thread, deliveries, written, passes, appended,
                   storeVars, threadVars, runVars>>

\* the for loop takes the next job of the snapshot and enters _check_job
\* (lines 175-183); after the last job the thread sleeps
LoopNextJob ==
    /\ loop.pc = "iter"
    /\ IF ForLoopOver(loop.todo, monitoring)
       THEN /\ loop' = [loop EXCEPT !.pc = "top", !.job = None]
            /\ UNCHANGED passes
       ELSE LET j == Head(loop.todo) IN
            IF ~is_running(j) \/ ~files[output_dir(j)].exists
            THEN /\ loop' = [loop EXCEPT !.todo = Tail(@), !.job = None,
                                         !.polled = Append(@, j)]
                 /\ passes' = PassDone(j)
            ELSE /\ loop' = [loop EXCEPT !.pc = "read", !.todo = Tail(@), !.job = j,
                                         !.polled = Append(@, j),
                                         !.pos = 1, !.last_step = InitialLastStep(j)]
                 /\ UNCHANGED passes
    /\ UNCHANGED <<files, jobs, job_status, metrics_history, callbacks, monitoring,
                   monitor_thread, deliveries, written, appended,
                   storeVars, threadVars, runVars>>

\* a _notify that stops at the first callback
NotifyNextFirstOnly(lp, outcome) == [lp EXCEPT !.ni = Len(callbacks) + 1]

\* a _notify without the try/except: the exception ends the thread
NotifyNextUncaught(lp, outcome) ==
    IF outcome = "raised" THEN [LoopOff EXCEPT !.pc = "crashed"]
    ELSE [lp EXCEPT !.ni = @ + 1]

\* what the thread does after a callback returned or raised: _notify catches
\* Exception and goes on with the next callback
NotifyNext(lp, outcome) == [lp EXCEPT !.ni = @ + 1]

\* parse_file yields the next record of the file (lines 131-135) and the body
\* of the for loop of _check_job (lines 187-190) runs up to the call of _notify
ReadLine ==
    /\ loop.pc = "read"
    /\ LET j == loop.job
           lines == files[output_dir(j)].lines IN
       IF loop.pos > Len(lines)
       THEN \* end of file: _check_job returns
            /\ loop' = [loop EXCEPT !.pc = "iter", !.job = None]
            /\ passes' = PassDone(j)
            /\ UNCHANGED <<metrics_history, appended>>
       ELSE LET r == parse_line(lines[loop.pos]) IN
            CASE r.tag = "raise" ->
                    \* the exception leaves _check_job and _monitor_loop
                    /\ loop' = [LoopOff EXCEPT !.pc = "crashed"]
                    /\ UNCHANGED <<metrics_history, passes, appended>>
              [] r.tag = "metrics" /\ IsNew(r.m.step, loop.last_step) ->
                    /\ metrics_history' =
                          [metrics_history EXCEPT ![j] = Append(@, r.m)]
                    /\ loop' = [loop EXCEPT !.pc = "notify", !.m = r.m, !.ni = 1]
                    /\ appended' = [appended EXCEPT ![j] = Append(@, Len(callbacks))]
                    /\ UNCHANGED passes
              [] OTHER ->
                    /\ loop' = [loop EXCEPT !.pos = @ + 1]
                    /\ UNCHANGED <<metrics_history, passes, appended>>
    /\ UNCHANGED <<files, jobs, job_status, callbacks, monitoring, monitor_thread,
                   deliveries, written,
                   storeVars, threadVars, runVars>>

\* _notify (lines 167-171): one callback per step, in list order; after the
\* last one _check_job line 190 sets last_step and the for loop goes on
NotifyStep ==
    /\ loop.pc = "notify"
    /\ IF loop.ni > Len(callbacks)
       THEN /\ loop' = [loop EXCEPT !.pc = "read", !.pos = @ + 1,
                                    !.last_step = LastStepAfter(@, loop.m)]
            /\ UNCHANGED deliveries
       ELSE LET cb == callbacks[loop.ni]
                outcome == IF cb = "raises" THEN "raised" ELSE "returned" IN
            /\ deliveries' = Append(deliveries,
                                    [cb |-> loop.ni, job |-> loop.job,
                                     step |-> loop.m.step, outcome |-> outcome])
            /\ loop' = NotifyNext(loop, outcome)
    /\ UNCHANGED <<files, jobs, job_status, metrics_history, callbacks, monitoring,
                   monitor_thread, written, passes, appended,
                   storeVars, threadVars, runVars>>

\* ------------------------------------------------------------------ ExperimentManager
\* Optional values: <<>> is None, <<v>> is the value v
NoArg == <<>>
Some(v) == <<v>>

\* the ExperimentConfig snapshots of the model and the first 8 hex digits of
\* the md5 of their sorted JSON
Configs == {"c1"}
ConfigHash(c) == IF c = "c1" THEN "h1" ELSE "h2"

ExperimentStatuses == {"created", "running", "completed", "failed"}

\* an ExperimentResult a caller hands to update_experiment
SomeResult == [final_loss |-> 1, best_loss |-> 1, total_steps |-> 1,
               eval_metrics |-> "empty"]

\* an id made of the hash of the config alone
_generate_id_without_time(c) == <<0, ConfigHash(c)>>

\* _generate_id: the timestamp to the second and the hash of the config
_generate_id(c) == <<clock, ConfigHash(c)>>

\* every id the registry can hold
ExpIds == (0..MaxClock) \X {ConfigHash(c) : c \in Configs}

\* the default output_dir of create_experiment: experiments_dir/<id>/output
DefaultOutputDir(id) == "d1"

\* the output_dir of the training config, as create_training_config sets it:
\* output_base/<output_name>, where the trainer writes trainer_log.jsonl
ConfigOutputDir(c) == "d2"

\* datetime.isoformat / datetime.fromisoformat
isoformat(t) == <<"iso", t>>
fromisoformat(x) == x[2]

\* dataclasses.asdict of a config or a result, and Cls(**d) on that dict
asdict(x) == <<"dict", x>>
FromDictArgs(d) == d[2]

\* Experiment.to_dict
to_dict(e) ==
    [id |-> e.id, name |-> e.name, config |-> asdict(e.config),
     created_at |-> isoformat(e.created_at),
     completed_at |-> IF e.completed_at = NoArg THEN NoArg
                      ELSE Some(isoformat(e.completed_at[1])),
     status |-> e.status, output_dir |-> e.output_dir,
     result |-> IF e.result = NoArg THEN NoArg ELSE Some(asdict(e.result[1])),
     notes |-> e.notes, tags |-> e.tags]

\* a from_dict that leaves the result out
from_dict_without_result(d) ==
    [id |-> d.id, name |-> d.name, config |-> FromDictArgs(d.config),
     created_at |-> fromisoformat(d.created_at),
     completed_at |-> IF d.completed_at = NoArg THEN NoArg
                      ELSE Some(fromisoformat(d.completed_at[1])),
     status |-> d.status, output_dir |-> d.output_dir, result |-> NoArg,
     notes |-> d.notes, tags |-> d.tags]

\* Experiment.from_dict
from_dict(d) ==
    [id |-> d.id, name |-> d.name, config |-> FromDictArgs(d.config),
     created_at |-> fromisoformat(d.created_at),
     completed_at |-> IF d.completed_at = NoArg THEN NoArg
                      ELSE Some(fromisoformat(d.completed_at[1])),
     status |-> d.status, output_dir |-> d.output_dir,
     result |-> IF d.result = NoArg THEN NoArg ELSE Some(FromDictArgs(d.result[1])),
     notes |-> d.notes, tags |-> d.tags]

\* a dict assignment that keeps the value of a key already present
DictPutKeep(f, k, v) ==
    [x \in (DOMAIN f) \cup {k} |-> IF x \in DOMAIN f THEN f[x] ELSE v]

\* the dict with key k set to v
DictPut(f, k, v) == [x \in (DOMAIN f) \cup {k} |-> IF x = k THEN v ELSE f[x]]

\* the dict without key k
DictDel(f, k) == [x \in (DOMAIN f) \ {k} |-> f[x]]

\* a _save_index that leaves the file as it is
SavedIndexNotWritten(exps) == index_file

\* _save_index: the whole document is rewritten from the in-memory map
SavedIndex(exps) ==
    [exists |-> TRUE, updated_at |-> Some(isoformat(clock)),
     doc |-> [i \in DOMAIN exps |-> to_dict(exps[i])]]

\* _load_index, as run by ExperimentManager.__init__ on the directory: the
\* records of the file keyed by their id, or nothing when there is no file
_load_index(ix) ==
    IF ix.exists
    THEN [i \in {ix.doc[k].id : k \in DOMAIN ix.doc} |->
             from_dict(CHOOSE r \in {ix.doc[k] : k \in DOMAIN ix.doc} : r.id = i)]
    ELSE <<>>

\* get_experiment: self.experiments.get(exp_id)
get_experiment(exps, id) == IF id \in DOMAIN exps THEN Some(exps[id]) ELSE NoArg

\* Experiment(...) as create_experiment builds it
NewExperiment(id, name, c, tags, notes) ==
    [id |-> id, name |-> name, config |-> c, created_at |-> clock,
     completed_at |-> NoArg, status |-> "created",
     output_dir |-> DefaultOutputDir(id), result |-> NoArg,
     notes |-> notes, tags |-> tags]

\* create_experiment: the record is stored under its id, replacing any record
\* of that id, and the index is saved
CreateEffect(name, c, tags, notes) ==
    LET id == _generate_id(c) IN
    /\ experiments' = DictPut(experiments, id, NewExperiment(id, name, c, tags, notes))
    /\ index_file' = SavedIndex(experiments')
    /\ returned' = [op |-> "create_experiment", value |-> "Experiment"]

create_experiment(name, c, tags, notes) ==
    /\ CreateEffect(name, c, tags, notes)
    /\ UNCHANGED <<files, written, monVars, clock, peer, runVars>>

\* an update that takes `if notes:` for `if notes is not None:` and resets
\* the notes that were not passed
UpdatedNotesReset(e, status, result, notes, tags) ==
    [e EXCEPT
        !.status = IF status # NoArg /\ status[1] # "" THEN status[1] ELSE @,
        !.completed_at = IF status = Some("completed") THEN Some(clock) ELSE @,
        !.result = IF result # NoArg THEN result ELSE @,
        !.notes = IF notes # NoArg THEN notes[1] ELSE "",
        !.tags = IF tags # NoArg THEN tags[1] ELSE @]

\* the fields update_experiment sets (lines 30-42): a status that is truthy,
\* a result that is not None, notes and tags that are not None
Updated(e, status, result, notes, tags) ==
    [e EXCEPT
        !.status = IF status # NoArg /\ status[1] # "" THEN status[1] ELSE @,
        !.completed_at = IF status = Some("completed") THEN Some(clock) ELSE @,
        !.result = IF result # NoArg THEN result ELSE @,
        !.notes = IF notes # NoArg THEN notes[1] ELSE @,
        !.tags = IF tags # NoArg THEN tags[1] ELSE @]

\* update_experiment on a known id
UpdateEffect(id, status, result, notes, tags) ==
    /\ experiments' =
          [experiments EXCEPT ![id] = Updated(@, status, result, notes, tags)]
    /\ index_file' = SavedIndex(experiments')
    /\ returned' = [op |-> "update_experiment", value |-> "Experiment"]

\* an update_experiment that saves the index before it looks the id up
UpdateUnknownSaves ==
    /\ index_file' = SavedIndex(experiments)
    /\ UNCHANGED experiments
    /\ returned' = [op |-> "update_experiment", value |-> "None"]

\* update_experiment on an unknown id (lines 26-28): returns None
UpdateUnknown ==
    /\ UNCHANGED <<experiments, index_file>>
    /\ returned' = [op |-> "update_experiment", value |-> "None"]

update_experiment(id, status, result, notes, tags) ==
    /\ IF id \in DOMAIN experiments
       THEN UpdateEffect(id, status, result, notes, tags)
       ELSE UpdateUnknown
    /\ UNCHANGED <<files, written, monVars, clock, peer, runVars>>

\* delete_experiment; delete_files removes the output directory first
delete_experiment(id, delete_files) ==
    /\ IF id \in DOMAIN experiments
       THEN /\ experiments' = DictDel(experiments, id)
            /\ index_file' = SavedIndex(experiments')
            /\ files' = IF delete_files
                        THEN [files EXCEPT ![experiments[id].output_dir] =
                                 [exists |-> FALSE, lines |-> <<>>]]
                        ELSE files
            /\ returned' = [op |-> "delete_experiment", value |-> "True"]
       ELSE /\ UNCHANGED <<experiments, index_file, files>>
            /\ returned' = [op |-> "delete_experiment", value |-> "False"]
    /\ UNCHANGED <<written, monVars, clock, peer, runVars>>

\* a second passes on the wall clock
Tick ==
    /\ clock < MaxClock
    /\ clock' = clock + 1
    /\ UNCHANGED <<files, written, monVars, experiments, index_file, peer,
                   returned, runVars>>

\* a caller looks an id up (lines 184-186): nothing but the return value
GetExperiment(id) ==
    /\ returned' = [op |-> "get_experiment",
                    value |-> IF get_experiment(experiments, id) = NoArg
                              THEN "None" ELSE "Experiment"]
    /\ UNCHANGED <<files, written, monVars, clock, experiments, index_file,
                   peer, runVars>>

\* ------------------------------------------------------------------ list_experiments
RECURSIVE sorted_ascending(_)
\* the records by created_at, earliest first
sorted_ascending(S) ==
    IF S = {} THEN <<>>
    ELSE LET e == CHOOSE x \in S : \A y \in S : x.created_at <= y.created_at IN
         <<e>> \o sorted_ascending(S \ {e})

RECURSIVE sorted_reverse(_)
\* sorted(results, key=created_at, reverse=True) (line 202): latest first.
\* Records of equal created_at come out in dict order, which the registry of
\* the model does not keep; their order is fixed arbitrarily.
sorted_reverse(S) ==
    IF S = {} THEN <<>>
    ELSE LET e == CHOOSE x \in S : \A y \in S : x.created_at >= y.created_at IN
         <<e>> \o sorted_reverse(S \ {e})

\* any(t in e.tags for t in tags) (line 200)
AnyTagIn(tags, e) ==
    \E k \in 1..Len(tags) : \E n \in 1..Len(e.tags) : e.tags[n] = tags[k]

\* list_experiments (lines 194-202): `if status:` and `if tags:` skip their
\* filter for None and for an empty string or list
list_experiments(exps, status, tags) ==
    LET results == {exps[id] : id \in DOMAIN exps}
        by_status == IF status # NoArg /\ status[1] # ""
                     THEN {e \in results : e.status = status[1]} ELSE results
        by_tags == IF tags # NoArg /\ tags[1] # <<>>
                   THEN {e \in by_status : AnyTagIn(tags[1], e)} ELSE by_status
    IN sorted_reverse(by_tags)

\* a caller lists the registry
ListExperiments(status, tags) ==
    /\ returned' = [op |-> "list_experiments", status |-> status, tags |-> tags,
                    value |-> list_experiments(experiments, status, tags)]
    /\ UNCHANGED <<files, written, monVars, clock, experiments, index_file,
                   peer, runVars>>

\* ------------------------------------------------------------------ a crash in a call
\* experiments_index.json after open(self.index_file, 'w') of _save_index
\* (line 147) and before json.dump has written the whole document: the file
\* exists and holds nothing or a prefix of the document
Truncated == [exists |-> TRUE, updated_at |-> NoArg, doc |-> <<>>]

\* json.load of _load_index (line 135) succeeds: there is no file to open, or
\* the file holds a whole document
Loadable(ix) == ~ix.exists \/ ix.updated_at # NoArg

\* the process is running and holds an ExperimentManager
Alive == returned.op # "crash" /\ returned.value # "JSONDecodeError"

\* the process dies inside a mutating call: before _save_index has opened
\* the file, or between the open that truncates it and the end of json.dump
\* (lines 147-148). update_experiment and delete_experiment reach _save_index
\* for a known id only.
CrashInCall(call, at) ==
    /\ Alive
    /\ call # "create_experiment" => experiments # <<>>
    /\ index_file' = IF at = "after_open" THEN Truncated ELSE index_file
    /\ experiments' = <<>>
    /\ returned' = [op |-> "crash", value |-> call]
    /\ UNCHANGED <<files, written, monVars, clock, peer, runVars>>

\* a new process constructs an ExperimentManager on the directory (lines
\* 123-129): _load_index reads the file, and json.load raises on a file that
\* does not hold a whole document
NewManager ==
    /\ returned.op = "crash"
    /\ IF Loadable(index_file)
       THEN /\ experiments' = _load_index(index_file)
            /\ returned' = [op |-> "__init__", value |-> "ExperimentManager"]
       ELSE /\ experiments' = <<>>
            /\ returned' = [op |-> "__init__", value |-> "JSONDecodeError"]
    /\ UNCHANGED <<files, written, monVars, clock, index_file, peer, runVars>>

\* ------------------------------------------------------------------ a second manager
\* ExperimentManager.__init__ of a second instance (of a second
\* TrainingOrchestrator) on the same directory: _load_index reads the file
\* once, at construction
PeerConstruct ==
    /\ ~peer.constructed
    /\ peer' = [constructed |-> TRUE, experiments |-> _load_index(index_file)]
    /\ UNCHANGED <<files, written, monVars, clock, experiments, index_file,
                   returned, runVars>>

\* create_experiment on the second instance: its own map, the shared file
PeerCreate(name, c, tags, notes) ==
    /\ peer.constructed
    /\ LET id == _generate_id(c) IN
       peer' = [peer EXCEPT !.experiments =
                   DictPut(@, id, NewExperiment(id, name, c, tags, notes))]
    /\ index_file' = SavedIndex(peer'.experiments)
    /\ UNCHANGED <<files, written, monVars, clock, experiments, returned, runVars>>

\* update_experiment on the second instance, on an id it knows
PeerUpdate(id, status, result, notes, tags) ==
    /\ peer.constructed
    /\ id \in DOMAIN peer.experiments
    /\ peer' = [peer EXCEPT !.experiments[id] = Updated(@, status, result, notes, tags)]
    /\ index_file' = SavedIndex(peer'.experiments)
    /\ UNCHANGED <<files, written, monVars, clock, experiments, returned, runVars>>

\* ------------------------------------------------------------------ load_results_from_logs
RECURSIVE Losses(_)
\* the losses > 0 of the parsed records, in file order (lines 78-80)
Losses(lines) ==
    IF lines = <<>> THEN <<>>
    ELSE LET r == parse_line(Head(lines)) IN
         IF r.tag = "metrics" /\ r.m.loss > 0
         THEN <<r.m.loss>> \o Losses(Tail(lines))
         ELSE Losses(Tail(lines))

RECURSIVE TotalSteps(_)
\* max over the parsed records of their step, starting from 0 (line 81)
TotalSteps(lines) ==
    IF lines = <<>> THEN 0
    ELSE LET r == parse_line(Head(lines))
             rest == TotalSteps(Tail(lines)) IN
         IF r.tag = "metrics" /\ r.m.step > rest THEN r.m.step ELSE rest

SeqMin(q) == CHOOSE x \in {q[k] : k \in 1..Len(q)} : \A k \in 1..Len(q) : x <= q[k]

\* load_results_from_logs on a record with an output_dir: None, a result, or
\* an exception of parse_line or of json.load on all_results.json
load_results_from_logs(f, eval) ==
    IF ~f.exists THEN [tag |-> "none", res |-> NoArg]
    ELSE IF \E k \in 1..Len(f.lines) : parse_line(f.lines[k]).tag = "raise"
    THEN [tag |-> "raise", res |-> NoArg]
    ELSE IF Losses(f.lines) = <<>> THEN [tag |-> "none", res |-> NoArg]
    ELSE IF eval = "malformed" THEN [tag |-> "raise", res |-> NoArg]
    ELSE [tag |-> "result",
          res |-> Some([final_loss |-> Last(Losses(f.lines)),
                        best_loss |-> SeqMin(Losses(f.lines)),
                        total_steps |-> TotalSteps(f.lines),
                        eval_metrics |-> IF eval = "valid" THEN "loaded" ELSE "empty"])]

\* ------------------------------------------------------------------ TrainingOrchestrator
\* the experiment of the call
RunId == run.id[1]

\* the status written for a process that exited (lines 181-188)
StatusForReturnCode(rc) == IF rc = 0 THEN "completed" ELSE "failed"

\* cleanup written after the try statement instead of in its finally clause
AfterBodyNoFinally(exc) == IF exc = "interrupt" THEN "raised" ELSE "finally"

\* where the call goes when the try body or a handler is left (line 193)
AfterBody(exc) == "finally"

\* the steps of the main thread leave the log and the polling thread alone
RunFrame == UNCHANGED <<files, written, job_status, metrics_history, deliveries,
                        passes, appended, orphans, stopping, clock, peer,
                        eval_file, sweep>>

\* lines 137-142: the experiment record is created
RunCreate(c, mon, notify) ==
    /\ run.pc = "idle"
    /\ CreateEffect("run", c, <<>>, "")
    /\ run' = [run EXCEPT !.pc = "set_running", !.id = Some(_generate_id(c)),
                          !.monitor = mon, !.notify = notify]
    /\ RunFrame
    /\ UNCHANGED <<jobs, callbacks, monitoring, monitor_thread, loop,
                   active_monitors, spawned>>

\* a call that goes to the process without setting the monitor up
AfterSetRunningSpawn(mon) == "spawn"

\* the test of line 148 (output_dir is always set): the monitor is set up
\* before the process is started
AfterSetRunning(mon) == IF mon THEN "add_job" ELSE "spawn"

\* line 145, then the test of line 148
RunSetRunning ==
    /\ run.pc = "set_running"
    /\ UpdateEffect(RunId, Some("running"), NoArg, NoArg, NoArg)
    /\ run' = [run EXCEPT !.pc = AfterSetRunning(run.monitor)]
    /\ RunFrame
    /\ UNCHANGED <<jobs, callbacks, monitoring, monitor_thread, loop,
                   active_monitors, spawned>>

\* lines 149-156: a TrainingJob on the experiment's output_dir, a new monitor
RunAddJob ==
    /\ run.pc = "add_job"
    /\ jobs' = DictSet(jobs, "j1")
    /\ run' = [run EXCEPT !.pc = "add_console"]
    /\ RunFrame
    /\ UNCHANGED <<callbacks, monitoring, monitor_thread, loop, experiments,
                   index_file, returned, active_monitors, spawned>>

\* line 157 (the observer of create_console_callback, which returns
\* normally), then the test of line 159
RunAddConsole ==
    /\ run.pc = "add_console"
    /\ callbacks' = Append(callbacks, "console")
    /\ run' = [run EXCEPT !.pc = IF run.notify THEN "add_notifier" ELSE "start"]
    /\ RunFrame
    /\ UNCHANGED <<jobs, monitoring, monitor_thread, loop, experiments,
                   index_file, returned, active_monitors, spawned>>

\* lines 160-162: the observer of create_notification_callback
RunAddNotifier ==
    /\ run.pc = "add_notifier"
    /\ callbacks' = Append(callbacks, "notifier")
    /\ run' = [run EXCEPT !.pc = "start"]
    /\ RunFrame
    /\ UNCHANGED <<jobs, monitoring, monitor_thread, loop, experiments,
                   index_file, returned, active_monitors, spawned>>

\* line 164: bg_monitor.start() on the new monitor
RunStart ==
    /\ run.pc = "start"
    /\ monitoring' = TRUE
    /\ monitor_thread' = "th"
    /\ loop' = [LoopOff EXCEPT !.pc = "top"]
    /\ run' = [run EXCEPT !.pc = "register"]
    /\ RunFrame
    /\ UNCHANGED <<jobs, callbacks, experiments, index_file, returned, active_monitors,
                   spawned>>

\* line 165
RunRegister ==
    /\ run.pc = "register"
    /\ active_monitors' = active_monitors \cup {RunId}
    /\ run' = [run EXCEPT !.pc = "spawn"]
    /\ RunFrame
    /\ UNCHANGED <<jobs, callbacks, monitoring, monitor_thread, loop,
                   experiments, index_file, returned, spawned>>

\* line 174: subprocess.run starts the process, or fails to (an OSError)
RunSpawn ==
    /\ run.pc = "spawn"
    /\ spawned' = spawned + 1
    /\ \/ run' = [run EXCEPT !.pc = "wait"]
       \/ run' = [run EXCEPT !.pc = "except", !.exc = "spawn_error"]
    /\ RunFrame
    /\ UNCHANGED <<jobs, callbacks, monitoring, monitor_thread, loop,
                   experiments, index_file, returned, active_monitors>>

\* subprocess.run waits: the process exits with a return code, the wait
\* raises an Exception, or a KeyboardInterrupt (a BaseException, which
\* `except Exception` of line 190 does not catch) is raised in the main thread
RunWait ==
    /\ run.pc = "wait"
    /\ \/ \E rc \in {0, 1} : run' = [run EXCEPT !.pc = "exited", !.rc = rc]
       \/ run' = [run EXCEPT !.pc = "except", !.exc = "wait_error"]
       \/ run' = [run EXCEPT !.pc = AfterBody("interrupt"), !.exc = "interrupt"]
    /\ RunFrame
    /\ UNCHANGED <<jobs, callbacks, monitoring, monitor_thread, loop,
                   experiments, index_file, returned, active_monitors, spawned>>

\* lines 181-182 and 187-188: the status of the exit code is written
RunExited ==
    /\ run.pc = "exited"
    /\ UpdateEffect(RunId, Some(StatusForReturnCode(run.rc)), NoArg, NoArg, NoArg)
    /\ run' = [run EXCEPT !.pc = IF run.rc = 0 THEN "load" ELSE AfterBody("none")]
    /\ RunFrame
    /\ UNCHANGED <<jobs, callbacks, monitoring, monitor_thread, loop,
                   active_monitors, spawned>>

\* line 184-185: the log is parsed again; an exception goes to the handler
RunLoad ==
    /\ run.pc = "load"
    /\ LET r == load_results_from_logs(files[experiments[RunId].output_dir],
                                       eval_file) IN
       run' = CASE r.tag = "raise" -> [run EXCEPT !.pc = "except", !.exc = "load_error"]
                [] r.tag = "result" -> [run EXCEPT !.pc = "set_result", !.res = r.res]
                [] OTHER -> [run EXCEPT !.pc = AfterBody("none")]
    /\ RunFrame
    /\ UNCHANGED <<jobs, callbacks, monitoring, monitor_thread, loop,
                   experiments, index_file, returned, active_monitors, spawned>>

\* line 186
RunSetResult ==
    /\ run.pc = "set_result"
    /\ UpdateEffect(RunId, NoArg, run.res, NoArg, NoArg)
    /\ run' = [run EXCEPT !.pc = AfterBody("none")]
    /\ RunFrame
    /\ UNCHANGED <<jobs, callbacks, monitoring, monitor_thread, loop,
                   active_monitors, spawned>>

\* lines 190-192: the handler of Exception
RunExcept ==
    /\ run.pc = "except"
    /\ UpdateEffect(RunId, Some("failed"), NoArg, NoArg, NoArg)
    /\ run' = [run EXCEPT !.pc = AfterBody("none")]
    /\ RunFrame
    /\ UNCHANGED <<jobs, callbacks, monitoring, monitor_thread, loop,
                   active_monitors, spawned>>

\* the call returns experiment.id (line 199) or the pending exception goes on
RunEnd(r) ==
    IF r.exc = "interrupt" THEN [r EXCEPT !.pc = "raised"]
    ELSE [r EXCEPT !.pc = "done", !.ret = r.id]

\* lines 195-196: stop() clears the flag (monitor_extras line 31) and, as the
\* thread reference is set, goes on to join it
RunFinally ==
    /\ run.pc = "finally"
    /\ IF RunId \in active_monitors
       THEN /\ monitoring' = FALSE
            /\ run' = [run EXCEPT !.pc = "join"]
       ELSE /\ run' = RunEnd(run)
            /\ UNCHANGED monitoring
    /\ RunFrame
    /\ UNCHANGED <<jobs, callbacks, monitor_thread, loop, experiments,
                   index_file, returned, active_monitors, spawned>>

\* join(timeout=5) returns once the thread has finished, or after 5 seconds
\* while a pass is still in progress (a sleeping thread wakes up within
\* poll_interval = 2 seconds); then lines 34 and 197
RunJoin ==
    /\ run.pc = "join"
    /\ ThreadDead \/ loop.pc \in {"iter", "read", "notify"}
    /\ monitor_thread' = None
    /\ active_monitors' = active_monitors \ {RunId}
    /\ run' = RunEnd(run)
    /\ RunFrame
    /\ UNCHANGED <<jobs, callbacks, monitoring, loop, experiments, index_file, returned,
                   spawned>>

\* while the call waits, a line is appended to trainer_log.jsonl of the
\* experiment's output directory, the file the monitor tails and
\* load_results_from_logs reads
OutputDirWrite(line) ==
    /\ run.pc = "wait"
    /\ TrainerWrite(experiments[RunId].output_dir, line, MaxRunLines)

\* while it runs, the process started at line 174 on the config file appends
\* a line to trainer_log.jsonl of the output_dir its config names
TrainerProcessWrite(line) ==
    /\ run.pc = "wait"
    /\ TrainerWrite(ConfigOutputDir(experiments[RunId].config), line, MaxRunLines)

\* a line is appended to the log of the experiment's output directory after
\* the finally clause has cleared the flag, while the pass the polling thread
\* was in goes on: whatever the thread reads from now on was written after its
\* last pass began
LateWrite(line) ==
    /\ run.pc \in {"join", "done", "raised"}
    /\ ~monitoring
    /\ loop.pc \in {"iter", "read", "notify"}
    /\ TrainerWrite(experiments[RunId].output_dir, line, MaxRunLines)

\* while the process runs, all_results.json appears in the output directory,
\* well-formed or not
EvalWrite(kind) ==
    /\ run.pc = "wait"
    /\ eval_file = "absent"
    /\ eval_file' = kind
    /\ UNCHANGED <<files, written, monVars, storeVars, run, active_monitors,
                   spawned, sweep>>

\* ------------------------------------------------------------------ run_parameter_sweep
\* the configurations generate_sweep yields, in the order of
\* itertools.product over the lists (config_generator_extras lines 79-94);
\* configurations of different parameters have different hashes
SweepConfigs == <<"c1", "c2">>

\* experiment_ids.append(exp_id) (lines 74 and 91)
SweepAppend(ids, id) == Append(ids, id)

\* lines 46-57: the call sets up its lists and enters the for loop
SweepBegin(sequential) ==
    /\ sweep.pc = "idle"
    /\ sweep' = [sweep EXCEPT !.pc = "loop", !.sequential = sequential]
    /\ UNCHANGED <<files, written, monVars, storeVars, run, active_monitors,
                   spawned, eval_file>>

\* lines 67-73: with sequential set, the body of the for loop calls
\* run_training_cli on the next configuration, with monitor=True
SweepCall(notify) ==
    /\ sweep.pc = "loop"
    /\ sweep.sequential
    /\ Len(sweep.ids) < Len(SweepConfigs)
    /\ RunCreate(SweepConfigs[Len(sweep.ids) + 1], TRUE, notify)

\* line 74: run_training_cli has returned and its id is appended. The
\* orchestrator holds no reference to the monitor of the call any more; the
\* next call builds a new BackgroundMonitor (orchestrator.py line 154), while
\* a thread that outlived the join goes on with the pass it is in
SweepCollect ==
    /\ sweep.pc = "loop"
    /\ run.pc = "done"
    /\ sweep' = [sweep EXCEPT !.ids = SweepAppend(@, run.ret[1]),
                              !.old = IF ThreadDead THEN @ ELSE @ + 1]
    /\ run' = NoRun
    /\ jobs' = <<>>
    /\ callbacks' = <<>>
    /\ loop' = LoopOff
    /\ UNCHANGED <<files, written, job_status, metrics_history, monitoring,
                   monitor_thread, orphans, stopping, deliveries, passes,
                   appended, storeVars, active_monitors, spawned, eval_file>>

\* the thread of the monitor of an earlier run ends its pass, finds the flag
\* of its monitor cleared and exits (monitor_extras line 39)
OldThreadExit ==
    /\ sweep.old > 0
    /\ sweep' = [sweep EXCEPT !.old = @ - 1]
    /\ UNCHANGED <<files, written, monVars, storeVars, run, active_monitors,
                   spawned, eval_file>>

\* a KeyboardInterrupt that left run_training_cli leaves run_parameter_sweep
SweepRaise ==
    /\ sweep.pc = "loop"
    /\ run.pc = "raised"
    /\ sweep' = [sweep EXCEPT !.pc = "raised"]
    /\ UNCHANGED <<files, written, monVars, storeVars, run, active_monitors,
                   spawned, eval_file>>

\* lines 75-91: without sequential, the body of the for loop creates the
\* experiment record of the next configuration and appends its id
SweepCreateOnly ==
    /\ sweep.pc = "loop"
    /\ ~sweep.sequential
    /\ Len(sweep.ids) < Len(SweepConfigs)
    /\ LET c == SweepConfigs[Len(sweep.ids) + 1] IN
       /\ CreateEffect("run", c, <<"sweep">>, "")
       /\ sweep' = [sweep EXCEPT !.ids = SweepAppend(@, _generate_id(c))]
    /\ UNCHANGED <<files, written, monVars, clock, peer, run, active_monitors,
                   spawned, eval_file>>

\* line 93: the generator is exhausted and experiment_ids is returned
SweepReturn ==
    /\ sweep.pc = "loop"
    /\ run.pc = "idle"
    /\ Len(sweep.ids) = Len(SweepConfigs)
    /\ sweep' = [sweep EXCEPT !.pc = "returned"]
    /\ UNCHANGED <<files, written, monVars, storeVars, run, active_monitors,
                   spawned, eval_file>>

\* ------------------------------------------------------------------ specifications
\* One watched job, one log with arbitrary contents, polled while it grows.
NextMonitor ==
    \/ \E line \in MonitorLines : TrainerWrite("d1", line, MaxLines)
    \/ add_job("j1")
    \/ add_callback("ok")
    \/ start
    \/ LoopTop
    \/ LoopNextJob
    \/ ReadLine
    \/ NotifyStep

SpecMonitor == Init /\ [][NextMonitor]_vars

\* Two watched jobs and observers of both kinds, registered at any time, over
\* a log that was written before the monitor is set up.
InitNotify ==
    /\ \E l \in SeqsUpTo(NotifyLines, MaxNotifyLines) :
          /\ files = [d \in Dirs |-> IF d = "d1" THEN [exists |-> l # <<>>, lines |-> l]
                                     ELSE [exists |-> FALSE, lines |-> <<>>]]
          /\ written = Len(l)
    /\ jobs = <<>>
    /\ job_status = [j \in JobObjs |-> "running"]
    /\ metrics_history = [j \in JobObjs |-> <<>>]
    /\ callbacks = <<>>
    /\ monitoring = FALSE
    /\ monitor_thread = None
    /\ loop = LoopOff
    /\ orphans = <<>>
    /\ stopping = FALSE
    /\ deliveries = <<>>
    /\ passes = [j \in JobObjs |-> NoPass]
    /\ appended = [j \in JobObjs |-> <<>>]
    /\ InitRegistry

NextNotify ==
    \/ \E j \in JobObjs : add_job(j)
    \/ \E cb \in CallbackKinds : add_callback(cb)
    \/ start
    \/ LoopTop
    \/ LoopNextJob
    \/ ReadLine
    \/ NotifyStep

SpecNotify == InitNotify /\ [][NextNotify]_vars

\* One BackgroundMonitor, started and stopped any number of times by one
\* caller, with a job whose log file does not exist yet.  The polling threads are scheduled fairly and a join
\* returns at the latest when its timeout is over.
NextStartStop ==
    \/ add_job("j1")
    \/ start
    \/ stop
    \/ StopJoin
    \/ LoopTop
    \/ LoopNextJob
    \/ \E i \in 1..MaxOrphans : OrphanTop(i)
    \/ \E i \in 1..MaxOrphans : OrphanNextJob(i)

SpecStartStop ==
    /\ Init
    /\ [][NextStartStop]_vars
    /\ WF_vars(StopJoin)
    /\ WF_vars(LoopTop)
    /\ WF_vars(LoopNextJob)
    /\ \A i \in 1..MaxOrphans : WF_vars(OrphanTop(i)) /\ WF_vars(OrphanNextJob(i))

\* The registry under any sequence of calls of its callers.
StatusArgs == {NoArg} \cup {Some(x) : x \in ExperimentStatuses}
ResultArgs == {NoArg, Some(SomeResult)}

NextStore ==
    \/ \E c \in Configs : create_experiment("run", c, <<>>, "")
    \/ \E id \in ExpIds, st \in StatusArgs, res \in ResultArgs :
            update_experiment(id, st, res, NoArg, NoArg)
    \/ \E id \in ExpIds : GetExperiment(id)
    \/ \E id \in ExpIds, df \in BOOLEAN : delete_experiment(id, df)
    \/ Tick

SpecStore == Init /\ [][NextStore]_vars

\* The registry with records of two configs created within the same second,
\* and update_experiment called with every combination of its arguments.
FieldConfigs == {"c1", "c2"}
FieldStatusArgs == {NoArg, Some("running"), Some("completed")}
NotesArgs == {NoArg, Some(""), Some("n")}
TagsArgs == {NoArg, Some(<<"t">>)}

NextFields ==
    \/ \E c \in FieldConfigs : create_experiment("run", c, <<>>, "")
    \/ \E c \in FieldConfigs, st \in FieldStatusArgs, res \in ResultArgs,
          notes \in NotesArgs, tags \in TagsArgs :
            update_experiment(_generate_id(c), st, res, notes, tags)
    \/ \E c \in FieldConfigs : delete_experiment(_generate_id(c), FALSE)

SpecFields == Init /\ [][NextFields]_vars

\* The registry within one second: a first create_experiment of a config, any
\* update of its record, and further calls of create_experiment with the same
\* config under another name, with or without tags and notes.
NextTwice ==
    \/ /\ _generate_id("c1") \notin DOMAIN experiments
       /\ create_experiment("run", "c1", <<>>, "")
    \/ \E tags \in {<<>>, <<"u">>}, notes \in {"", "m"} :
          /\ _generate_id("c1") \in DOMAIN experiments
          /\ create_experiment("again", "c1", tags, notes)
    \/ \E st \in StatusArgs, res \in ResultArgs,
          notes \in NotesArgs, tags \in TagsArgs :
            update_experiment(_generate_id("c1"), st, res, notes, tags)
    \/ delete_experiment(_generate_id("c1"), FALSE)

SpecTwice == Init /\ [][NextTwice]_vars

\* The registry of a process that can die inside a mutating call, after which
\* a new process constructs a manager on the same directory.
MutatingCalls == {"create_experiment", "update_experiment", "delete_experiment"}

NextCrash ==
    \/ \E c \in Configs : Alive /\ create_experiment("run", c, <<>>, "")
    \/ \E id \in ExpIds, st \in StatusArgs, res \in ResultArgs :
            Alive /\ update_experiment(id, st, res, NoArg, NoArg)
    \/ \E id \in ExpIds : Alive /\ delete_experiment(id, FALSE)
    \/ Alive /\ Tick
    \/ \E call \in MutatingCalls, at \in {"before_open", "after_open"} :
            CrashInCall(call, at)
    \/ NewManager

SpecCrash == Init /\ [][NextCrash]_vars

\* Two managers on one experiments_index.json, each recording one run the
\* way run_training_cli does: create, then running, then completed or failed.
\* The runs have different configs, so their ids differ.
RunStatusArgs == {Some("running"), Some("completed"), Some("failed")}

NextPeers ==
    \/ /\ _generate_id("c1") \notin DOMAIN experiments
       /\ create_experiment("run", "c1", <<>>, "")
    \/ \E st \in RunStatusArgs :
          /\ _generate_id("c1") \in DOMAIN experiments
          /\ update_experiment(_generate_id("c1"), st, NoArg, NoArg, NoArg)
    \/ PeerConstruct
    \/ /\ _generate_id("c2") \notin DOMAIN peer.experiments
       /\ PeerCreate("run", "c2", <<>>, "")
    \/ \E st \in RunStatusArgs :
          /\ _generate_id("c2") \in DOMAIN peer.experiments
          /\ PeerUpdate(_generate_id("c2"), st, NoArg, NoArg, NoArg)

SpecPeers == Init /\ [][NextPeers]_vars

\* One call of run_training_cli, the polling thread it starts, and the files
\* of the experiment's output directory changing while the process runs.
NextRun ==
    \/ \E c \in Configs, mon \in BOOLEAN, notify \in BOOLEAN : RunCreate(c, mon, notify)
    \/ RunSetRunning
    \/ RunAddJob
    \/ RunAddConsole
    \/ RunAddNotifier
    \/ RunStart
    \/ RunRegister
    \/ RunSpawn
    \/ RunWait
    \/ RunExited
    \/ RunLoad
    \/ RunSetResult
    \/ RunExcept
    \/ RunFinally
    \/ RunJoin
    \/ \E line \in RunLines : OutputDirWrite(line)
    \/ \E kind \in {"valid", "malformed"} : EvalWrite(kind)
    \/ LoopTop
    \/ LoopNextJob
    \/ ReadLine
    \/ NotifyStep

SpecRun == Init /\ [][NextRun]_vars

\* One call of run_training_cli in which the only writer of a log is the
\* process the call started.
NextDirs ==
    \/ \E c \in Configs, mon \in BOOLEAN, notify \in BOOLEAN : RunCreate(c, mon, notify)
    \/ RunSetRunning
    \/ RunAddJob
    \/ RunAddConsole
    \/ RunAddNotifier
    \/ RunStart
    \/ RunRegister
    \/ RunSpawn
    \/ RunWait
    \/ RunExited
    \/ RunLoad
    \/ RunExcept
    \/ RunFinally
    \/ RunJoin
    \/ \E line \in RunLines : TrainerProcessWrite(line)
    \/ LoopTop
    \/ LoopNextJob

SpecDirs == Init /\ [][NextDirs]_vars

\* One watched job, constructed running or with another status, polled while
\* its log grows.
InitCheck ==
    /\ files = [d \in Dirs |-> [exists |-> FALSE, lines |-> <<>>]]
    /\ jobs = <<>>
    /\ \E st \in JobStatuses : job_status = [j \in JobObjs |-> st]
    /\ metrics_history = [j \in JobObjs |-> <<>>]
    /\ callbacks = <<>>
    /\ monitoring = FALSE
    /\ monitor_thread = None
    /\ loop = LoopOff
    /\ orphans = <<>>
    /\ stopping = FALSE
    /\ deliveries = <<>>
    /\ written = 0
    /\ passes = [j \in JobObjs |-> NoPass]
    /\ appended = [j \in JobObjs |-> <<>>]
    /\ InitRegistry

SpecCheck == InitCheck /\ [][NextMonitor]_vars

\* One call of run_training_cli whose log gets its lines only after stop() has
\* cleared the flag, during the last pass of the polling thread.
NextLate ==
    \/ \E c \in Configs, mon \in BOOLEAN, notify \in BOOLEAN : RunCreate(c, mon, notify)
    \/ RunSetRunning
    \/ RunAddJob
    \/ RunAddConsole
    \/ RunAddNotifier
    \/ RunStart
    \/ RunRegister
    \/ RunSpawn
    \/ RunWait
    \/ RunExited
    \/ RunLoad
    \/ RunExcept
    \/ RunFinally
    \/ RunJoin
    \/ \E line \in RunLines : LateWrite(line)
    \/ LoopTop
    \/ LoopNextJob
    \/ ReadLine
    \/ NotifyStep

SpecLate == Init /\ [][NextLate]_vars

\* One call of run_parameter_sweep, sequential or not, while the clock
\* advances and the polling threads run.
NextSweep ==
    \/ \E sequential \in BOOLEAN : SweepBegin(sequential)
    \/ \E notify \in BOOLEAN : SweepCall(notify)
    \/ RunSetRunning
    \/ RunAddJob
    \/ RunAddConsole
    \/ RunAddNotifier
    \/ RunStart
    \/ RunRegister
    \/ RunSpawn
    \/ RunWait
    \/ RunExited
    \/ RunLoad
    \/ RunExcept
    \/ RunFinally
    \/ RunJoin
    \/ SweepCollect
    \/ OldThreadExit
    \/ SweepRaise
    \/ SweepCreateOnly
    \/ SweepReturn
    \/ Tick
    \/ LoopTop
    \/ LoopNextJob

SpecSweep == Init /\ [][NextSweep]_vars

\* The same call with every step that can be taken eventually taken: the
\* main thread and the polling threads go on, and the process ends.
SpecSweepLive == SpecSweep /\ WF_vars(NextSweep)

\* Three job objects, two of them with the same job_id, added and removed by
\* callers at any time while the polling thread runs its passes over a log
\* written before.
InitJobs ==
    /\ \E l \in SeqsUpTo(NotifyLines, MaxJobLines) :
          /\ files = [d \in Dirs |-> IF d = "d1" THEN [exists |-> l # <<>>, lines |-> l]
                                     ELSE [exists |-> FALSE, lines |-> <<>>]]
          /\ written = Len(l)
    /\ jobs = <<>>
    /\ job_status = [j \in AllJobObjs |-> "running"]
    /\ metrics_history = [j \in AllJobObjs |-> <<>>]
    /\ callbacks = <<>>
    /\ monitoring = FALSE
    /\ monitor_thread = None
    /\ loop = LoopOff
    /\ orphans = <<>>
    /\ stopping = FALSE
    /\ deliveries = <<>>
    /\ passes = [j \in AllJobObjs |-> NoPass]
    /\ appended = [j \in AllJobObjs |-> <<>>]
    /\ InitRegistry

NextJobs ==
    \/ \E j \in AllJobObjs : add_job(j)
    \/ \E i \in JobIds : remove_job(i)
    \/ start
    \/ LoopTop
    \/ LoopNextJob
    \/ ReadLine
    \/ NotifyStep

SpecJobs == InitJobs /\ [][NextJobs]_vars

\* A monitor with two jobs and observers over a log written before, stopped
\* at any point of a pass and started again once its thread has finished.
\* The polling thread is scheduled fairly and a join returns at the latest
\* when its timeout is over.
NextStop ==
    \/ \E j \in JobObjs : add_job(j)
    \/ add_callback("ok")
    \/ ThreadDead /\ start
    \/ stop
    \/ StopJoin
    \/ LoopTop
    \/ LoopNextJob
    \/ ReadLine
    \/ NotifyStep

SpecStop ==
    /\ InitJobs
    /\ [][NextStop]_vars
    /\ WF_vars(StopJoin)
    /\ WF_vars(LoopTop)
    /\ WF_vars(LoopNextJob)
    /\ WF_vars(ReadLine)
    /\ WF_vars(NotifyStep)

\* The registry with records created in different seconds from three configs:
\* "c1", "c2", and "c3", whose sorted JSON differs from that of "c2" while its
\* md5 begins with the same 8 hex digits.
IdConfigs == {"c1", "c2", "c3"}
IdExpIds == (0..MaxClock) \X {ConfigHash(c) : c \in IdConfigs}

NextIds ==
    \/ \E c \in IdConfigs : create_experiment("run", c, <<>>, "")
    \/ \E id \in IdExpIds : update_experiment(id, Some("running"), NoArg, NoArg, NoArg)
    \/ \E id \in IdExpIds : GetExperiment(id)
    \/ Tick

SpecIds == Init /\ [][NextIds]_vars

\* The registry with tagged and untagged records of two statuses, created in
\* the same and in different seconds, listed with every combination of filters.
ListStatusArgs == {NoArg, Some(""), Some("running")}
ListTagsArgs == {NoArg, Some(<<>>), Some(<<"t">>), Some(<<"u", "t">>)}

NextList ==
    \/ \E c \in FieldConfigs :
          create_experiment("run", c, IF c = "c1" THEN <<>> ELSE <<"t">>, "")
    \/ \E id \in IdExpIds : update_experiment(id, Some("running"), NoArg, NoArg, NoArg)
    \/ \E st \in ListStatusArgs, tags \in ListTagsArgs : ListExperiments(st, tags)
    \/ Tick

SpecList == Init /\ [][NextList]_vars

\* A file of any lines, absent or present, and callers of the parser.
InitParse ==
    /\ \E l \in SeqsUpTo(ParseLines, MaxParseLines), e \in BOOLEAN :
          /\ l # <<>> => e
          /\ files = [d \in Dirs |-> IF d = "d1" THEN [exists |-> e, lines |-> l]
                                     ELSE [exists |-> FALSE, lines |-> <<>>]]
          /\ written = Len(l)
    /\ jobs = <<>>
    /\ job_status = [j \in JobObjs |-> "running"]
    /\ metrics_history = [j \in JobObjs |-> <<>>]
    /\ callbacks = <<>>
    /\ monitoring = FALSE
    /\ monitor_thread = None
    /\ loop = LoopOff
    /\ orphans = <<>>
    /\ stopping = FALSE
    /\ deliveries = <<>>
    /\ passes = [j \in JobObjs |-> NoPass]
    /\ appended = [j \in JobObjs |-> <<>>]
    /\ InitRegistry

NextParse ==
    \/ \E k \in 1..MaxParseLines : ParseLineCall(k)
    \/ ParseFileCall

SpecParse == InitParse /\ [][NextParse]_vars

\* ------------------------------------------------------------------ claims
\* the step values of the records parsed from the log of directory d
LogSteps(d) ==
    {parse_line(files[d].lines[k]).m.step : k \in
        {n \in 1..Len(files[d].lines) : parse_line(files[d].lines[n]).tag = "metrics"}}

SetMax(S) == CHOOSE x \in S : \A y \in S : y <= x

\* C1: metrics_history of every job is strictly increasing in step, in every
\* state reachable by poll passes over any log contents
C1_MonotonicHistory ==
    \A j \in JobObjs :
        \A i, k \in 1..Len(metrics_history[j]) :
            i < k => metrics_history[j][i].step < metrics_history[j][k].step

\* a pass has returned over a log that holds a repeated or decreasing step and
\* a line without step, and the history holds two records
C1_Witness ==
    /\ passes["j1"].done >= 1
    /\ Len(metrics_history["j1"]) >= 2
    /\ \E p, q \in 1..Len(files["d1"].lines) :
          /\ p < q
          /\ files["d1"].lines[p].kind = "metrics"
          /\ files["d1"].lines[q].kind = "metrics"
          /\ ~files["d1"].lines[q].hasStep
          /\ files["d1"].lines[p].step >= files["d1"].lines[q].step

\* the deliveries made for the record (j, s), as the sequence of callback indexes
RECURSIVE CbsOf(_, _, _)
CbsOf(ds, j, s) ==
    IF ds = <<>> THEN <<>>
    ELSE IF Head(ds).job = j /\ Head(ds).step = s
         THEN <<Head(ds).cb>> \o CbsOf(Tail(ds), j, s)
         ELSE CbsOf(Tail(ds), j, s)

\* the steps delivered to callback c for job j, in order
RECURSIVE StepsTo(_, _, _)
StepsTo(ds, c, j) ==
    IF ds = <<>> THEN <<>>
    ELSE IF Head(ds).job = j /\ Head(ds).cb = c
         THEN <<Head(ds).step>> \o StepsTo(Tail(ds), c, j)
         ELSE StepsTo(Tail(ds), c, j)

\* the record appended last is still being dispatched
InDispatch(j, k) == loop.pc = "notify" /\ loop.job = j /\ k = Len(appended[j])

\* C2: every callback registered when a record is appended is invoked exactly
\* once with that record, in registration order, before the next record is
\* appended; each observer receives a job's records in strictly increasing
\* step order
C2_NotifyOnceInOrder ==
    /\ \A j \in JobObjs : \A k \in 1..Len(metrics_history[j]) :
          LET got == CbsOf(deliveries, j, metrics_history[j][k].step) IN
          \* invoked in registration order, each once
          /\ \A n \in 1..Len(got) : got[n] = n
          \* all those registered at the append, before the next append
          /\ IF InDispatch(j, k) THEN Len(got) = loop.ni - 1
             ELSE Len(got) >= appended[j][k]
    \* the invocations of one record are not interleaved with another record's
    /\ \A d \in 1..Len(deliveries) :
          deliveries[d].cb > 1 =>
              /\ deliveries[d - 1].job = deliveries[d].job
              /\ deliveries[d - 1].step = deliveries[d].step
    /\ \A j \in JobObjs : \A c \in 1..Len(callbacks) :
          LET st == StepsTo(deliveries, c, j) IN
          \A n, m \in 1..Len(st) : n < m => st[n] < st[m]

\* two records of one job were each delivered to two observers
C2_Witness ==
    /\ Len(callbacks) = 2
    /\ loop.pc # "notify"
    /\ Len(StepsTo(deliveries, 1, "j1")) >= 2
    /\ Len(StepsTo(deliveries, 2, "j1")) >= 2

\* C3: after a callback raised, the callbacks registered after it are still
\* invoked, the record stays in metrics_history, the thread goes on, and a
\* pass that returned has taken every record of the file
C3_ObserverIsolation ==
    /\ loop.pc # "crashed"
    /\ \A d \in 1..Len(deliveries) :
          deliveries[d].outcome = "raised" =>
              LET j == deliveries[d].job
                  s == deliveries[d].step
                  c == deliveries[d].cb IN
              /\ \E n \in 1..Len(metrics_history[j]) : metrics_history[j][n].step = s
              /\ \A k \in 1..Len(metrics_history[j]) :
                    (metrics_history[j][k].step = s /\ c < appended[j][k])
                        => \/ /\ d < Len(deliveries)
                              /\ deliveries[d + 1].job = j
                              /\ deliveries[d + 1].step = s
                              /\ deliveries[d + 1].cb = c + 1
                           \/ /\ d = Len(deliveries)
                              /\ InDispatch(j, k)
                              /\ loop.ni = c + 1
    /\ \A j \in JobObjs :
          (passes[j].done >= 1 /\ passes[j].clean /\ LogSteps(output_dir(j)) # {})
              => /\ metrics_history[j] # <<>>
                 /\ Last(metrics_history[j]).step = SetMax(LogSteps(output_dir(j)))

\* the first observer raised on two records of j1, the second observer received
\* both, and a record of j2 was delivered after the first raise
C3_Witness ==
    /\ Len(callbacks) = 2
    /\ callbacks[1] = "raises"
    /\ callbacks[2] = "ok"
    /\ Len(StepsTo(deliveries, 1, "j1")) >= 2
    /\ Len(StepsTo(deliveries, 2, "j1")) >= 2
    /\ \E d, e \in 1..Len(deliveries) :
          /\ d < e
          /\ deliveries[d].job = "j1"
          /\ deliveries[d].outcome = "raised"
          /\ deliveries[e].job = "j2"
          /\ deliveries[e].cb = 2

\* C4: a poll pass over a job that follows a returned pass, with no line
\* written to the log since, leaves metrics_history as the first pass left it
\* and invokes no observer
C4_IdempotentPass ==
    \A j \in JobObjs :
        (passes[j].done >= 1 /\ passes[j].clean)
            => /\ metrics_history[j] = passes[j].hist
               /\ DeliveriesFor(j) = passes[j].ndeliv

\* a second pass has returned with no write since the first, over a log whose
\* steps are not increasing, for a job that holds records and has an observer
C4_Witness ==
    /\ passes["j1"].repeat
    /\ callbacks # <<>>
    /\ Len(metrics_history["j1"]) >= 1
    /\ DeliveriesFor("j1") >= 1
    /\ \E p, q \in 1..Len(files["d1"].lines) :
          p < q /\ parse_line(files["d1"].lines[p]).m.step
                     > parse_line(files["d1"].lines[q]).m.step

\* C5: once the status of an experiment is completed or failed, no later
\* update_experiment call changes it to created or running
C5_StatusOneWay ==
    [][\A id \in DOMAIN experiments, st \in StatusArgs, res \in ResultArgs :
          (experiments[id].status \in {"completed", "failed"}
              /\ update_experiment(id, st, res, NoArg, NoArg))
          => experiments'[id].status \notin {"created", "running"}]_vars

\* C6: an experiment whose status is not completed has result None
C6_ResultOnlyWhenCompleted ==
    \A id \in DOMAIN experiments :
        experiments[id].status # "completed" => experiments[id].result = NoArg

\* the run_training_cli call is over: it returned or an exception left it
CallOver == run.pc \in {"done", "raised"}

\* the record of the call's experiment as experiments_index.json holds it
Persisted == index_file.doc[RunId]

\* C7: when the process exited with code 0, the persisted status is completed
\* once run_training_cli is over, whatever the log and all_results.json hold
C7_ExitZeroCompleted ==
    (CallOver /\ run.rc = 0) => Persisted.status = "completed"

\* C8: after a non-zero exit code, or an exception raised by the spawn or by
\* the wait, run_training_cli returns the experiment id without raising, the
\* persisted status is failed, the result is None and the process was
\* spawned once
C8_FailureRecorded ==
    (CallOver /\ (run.rc >= 1
                    \/ run.exc \in {"spawn_error", "wait_error", "interrupt"}))
        => /\ run.pc = "done"
           /\ run.ret = run.id
           /\ Persisted.status = "failed"
           /\ Persisted.result = NoArg
           /\ experiments[RunId].result = NoArg
           /\ spawned = 1

\* C9: once a run_training_cli call that created its record is over, the
\* record is in a terminal status
C9_EndsTerminal ==
    (CallOver /\ run.id # NoArg) => Persisted.status \in {"completed", "failed"}

\* C10: once a call that started the monitor is over, stop() has run on it:
\* the flag is False, the thread reference is dropped and the experiment id
\* is not a key of active_monitors
C10_MonitorStopped ==
    (CallOver /\ run.monitor)
        => /\ ~monitoring
           /\ monitor_thread = None
           /\ RunId \notin active_monitors

\* a monitored call was left by a KeyboardInterrupt while the polling thread
\* was in a pass
C10_Witness ==
    /\ run.pc = "raised"
    /\ run.monitor
    /\ run.exc = "interrupt"
    /\ loop.pc \in {"read", "notify"}

\* C11: when run_training_cli has returned, the polling thread of the monitor
\* it started has terminated, so no pass and no observer invocation follows
C11_NoThreadAfterReturn ==
    (run.pc = "done" /\ run.monitor) => ThreadDead

\* C12: after every create_experiment, update_experiment or delete_experiment
\* call on one manager, the records serialized in experiments_index.json are
\* those of the in-memory map, field by field
C12_IndexMatchesMemory ==
    IF index_file.exists
    THEN /\ DOMAIN index_file.doc = DOMAIN experiments
         /\ \A i \in DOMAIN experiments : index_file.doc[i] = to_dict(experiments[i])
    ELSE experiments = <<>>

\* two records are held, and the last call updated one of them, which is
\* completed with a result, notes and tags
C12_Witness ==
    /\ Cardinality(DOMAIN experiments) = 2
    /\ returned.op = "update_experiment"
    /\ \E i \in DOMAIN experiments :
          /\ experiments[i].status = "completed"
          /\ experiments[i].result # NoArg
          /\ experiments[i].notes = "n"
          /\ experiments[i].tags = <<"t">>

C14_UpdateFrame ==
    [][\A c \in FieldConfigs, st \in FieldStatusArgs, res \in ResultArgs,
         notes \in NotesArgs, tags \in TagsArgs :
          LET id == _generate_id(c) IN
          (id \in DOMAIN experiments /\ update_experiment(id, st, res, notes, tags))
          => /\ DOMAIN experiments' = DOMAIN experiments
             /\ \A o \in DOMAIN experiments \ {id} : experiments'[o] = experiments[o]
             /\ experiments'[id].id = experiments[id].id
             /\ experiments'[id].name = experiments[id].name
             /\ experiments'[id].config = experiments[id].config
             /\ experiments'[id].created_at = experiments[id].created_at
             /\ experiments'[id].output_dir = experiments[id].output_dir
             /\ experiments'[id].status =
                    IF st = NoArg THEN experiments[id].status ELSE st[1]
             /\ experiments'[id].result =
                    IF res = NoArg THEN experiments[id].result ELSE res
             /\ experiments'[id].notes =
                    IF notes = NoArg THEN experiments[id].notes ELSE notes[1]
             /\ experiments'[id].tags =
                    IF tags = NoArg THEN experiments[id].tags ELSE tags[1]
             /\ IF st = Some("completed")
                THEN experiments'[id].completed_at # NoArg
                ELSE experiments'[id].completed_at = experiments[id].completed_at
    ]_vars

\* an update left one record completed with the result and completed_at set
\* and its notes as they were, next to a record that is still as created
C14_Witness ==
    /\ returned = [op |-> "update_experiment", value |-> "Experiment"]
    /\ \E i, o \in DOMAIN experiments :
          /\ i # o
          /\ experiments[i].status = "completed"
          /\ experiments[i].result = Some(SomeResult)
          /\ experiments[i].completed_at # NoArg
          /\ experiments[i].notes = "n"
          /\ experiments[o].status = "created"

\* C15: for an id that is not in the registry get_experiment and
\* update_experiment return None and delete_experiment returns False, and
\* the in-memory map, the index file and the output directories stay as
\* they were
C15_UnknownIdNoEffect ==
    [][\A id \in ExpIds \ DOMAIN experiments :
          /\ GetExperiment(id)
                => /\ returned'.value = "None"
                   /\ UNCHANGED <<experiments, index_file, files>>
          /\ \A st \in StatusArgs, res \in ResultArgs :
                update_experiment(id, st, res, NoArg, NoArg)
                    => /\ returned'.value = "None"
                       /\ UNCHANGED <<experiments, index_file, files>>
          /\ \A df \in BOOLEAN :
                delete_experiment(id, df)
                    => /\ returned'.value = "False"
                       /\ UNCHANGED <<experiments, index_file, files>>
    ]_vars

\* update_experiment on an unknown id has returned None while the registry
\* holds another record
C15_Witness ==
    /\ returned = [op |-> "update_experiment", value |-> "None"]
    /\ experiments # <<>>
    /\ index_file.exists

\* the record of config c in the map exps is in a terminal status
Finished(exps, c) ==
    /\ _generate_id(c) \in DOMAIN exps
    /\ exps[_generate_id(c)].status \in {"completed", "failed"}

\* C16: when two instances on the same experiments_index.json have both
\* finished their run, the file holds the record of each run with the final
\* status that run wrote
C16_NoLostRecord ==
    (Finished(experiments, "c1") /\ Finished(peer.experiments, "c2"))
        => /\ {_generate_id("c1"), _generate_id("c2")} \subseteq DOMAIN index_file.doc
           /\ index_file.doc[_generate_id("c1")].status =
                  experiments[_generate_id("c1")].status
           /\ index_file.doc[_generate_id("c2")].status =
                  peer.experiments[_generate_id("c2")].status

\* C17: once run_training_cli has persisted a terminal status for its
\* experiment, no later step of the call changes the persisted status
C17_TerminalWrittenOnce ==
    [][(/\ run.id # NoArg
        /\ RunId \in DOMAIN index_file.doc
        /\ Persisted.status \in {"completed", "failed"})
       => index_file'.doc[RunId].status = Persisted.status]_vars

\* C18: in a run of run_training_cli the directory of the job the monitor
\* tails, which is also the directory load_results_from_logs reads, is the
\* output_dir of the training config, where the process writes its log
C18_MonitorTailsTrainerDir ==
    (run.id # NoArg /\ run.pc \notin {"idle", "set_running", "add_job"})
        => /\ experiments[RunId].output_dir =
                  ConfigOutputDir(experiments[RunId].config)
           /\ run.monitor => \A k \in 1..Len(jobs) :
                  output_dir(jobs[k]) = ConfigOutputDir(experiments[RunId].config)
           /\ files[experiments[RunId].output_dir]
                  = files[ConfigOutputDir(experiments[RunId].config)]

\* the polling threads of the monitor that are inside a pass
LoopsInPass ==
    (IF loop.pc \in {"iter", "read", "notify"} THEN 1 ELSE 0)
        + Cardinality({i \in 1..Len(orphans) : orphans[i].pc = "iter"})

\* C19: whatever start() and stop() calls were made on a BackgroundMonitor,
\* a stop() whose join timed out included, at most one polling loop of that
\* monitor is running
C19_SingleLoop == LoopsInPass <= 1

\* no polling thread of the monitor is alive
AllThreadsDead == ThreadDead /\ orphans = <<>>

\* C20: stop() returns, at once when no thread reference is set and otherwise
\* when its join returns; once the flag is cleared no thread begins another
\* pass, and unless start() is called again every polling thread exits
C20_StopTerminates ==
    /\ [][(stop /\ monitor_thread = None) => ~stopping']_vars
    /\ stopping ~> ~stopping
    /\ [][(~monitoring /\ ~monitoring' /\ loop.pc = "top") => loop'.pc # "iter"]_vars
    /\ ~monitoring ~> (monitoring \/ AllThreadsDead)

\* stop() has returned from a join that timed out: the flag is cleared, the
\* reference is dropped and the thread is still inside its pass
C20_Witness ==
    /\ ~monitoring
    /\ ~stopping
    /\ monitor_thread = None
    /\ loop.pc = "iter"

\* the object is in the watched set
Watched(j) == \E k \in 1..Len(jobs) : jobs[k] = j

\* the object was watched and add_job put another object in its place
Replaced(j) == ~Watched(j) /\ \E k \in 1..Len(jobs) : job_id(jobs[k]) = job_id(j)

\* the step is the polling thread calling _check_job on j
PollOf(j) == loop.pc = "iter" /\ loop'.polled = Append(loop.polled, j)

\* C21: the watched set holds one entry per job_id, and an object that
\* add_job replaced by another object of the same job_id is not polled while
\* it is replaced, also when add_job was called during a poll pass
C21_ReplacedNeverPolled ==
    [][/\ \A k, n \in 1..Len(jobs') : job_id(jobs'[k]) = job_id(jobs'[n]) => k = n
       /\ \A j \in AllJobObjs : PollOf(j) => ~Replaced(j)]_vars

\* a poll pass is in progress
InPass == loop.pc \in {"iter", "read", "notify"}

\* C22: with add_job and remove_job called at any time, no pass fails; a pass
\* iterates over the watched set as it was when the pass began, polls its
\* objects once each and in order without leaving one out, and calls made
\* during a pass show in the next pass
C22_PassOverSnapshot ==
    /\ [](loop.pc # "crashed")
    /\ [](InPass => loop.polled \o loop.todo = loop.snap)
    /\ [](loop.pc = "top" => loop.polled = loop.snap)
    /\ [](\A k, n \in 1..Len(loop.snap) : loop.snap[k] = loop.snap[n] => k = n)
    /\ [][loop.pc = "top" /\ InPass' => loop'.snap = jobs']_vars
    /\ [][InPass /\ InPass' => loop'.snap = loop.snap]_vars

\* during a pass over two objects, after the first was polled, the second
\* was removed and an object that the pass does not iterate over was added
C22_Witness ==
    /\ loop.pc = "iter"
    /\ Len(loop.polled) = 1
    /\ Len(loop.todo) = 1
    /\ ~Watched(Head(loop.todo))
    /\ \E j \in AllJobObjs : Watched(j) /\ \A k \in 1..Len(loop.snap) : loop.snap[k] # j
    /\ metrics_history[Head(loop.polled)] # <<>>

\* C23: parse_line returns a record or None on every line and never raises
C23_ParseLineNeverRaises ==
    returned.op = "parse_line" => returned.value.tag \in {"metrics", "none"}

RECURSIVE RecordsOf(_)
\* one record for each line on which parse_line returns a record, in order
RecordsOf(ls) ==
    IF ls = <<>> THEN <<>>
    ELSE (IF parse_line(Head(ls)).tag = "metrics" THEN <<parse_line(Head(ls)).m>>
          ELSE <<>>) \o RecordsOf(Tail(ls))

\* C24: parse_file yields, in file order, one record for each line on which
\* parse_line returns a record and nothing else, and nothing when the file
\* does not exist
C24_ParseFileYieldsRecords ==
    returned.op = "parse_file" =>
        /\ ~returned.value.raised
        /\ returned.value.records =
              IF files["d1"].exists THEN RecordsOf(files["d1"].lines) ELSE <<>>

\* the records of the log that load_results_from_logs reads for the run
RunRecords == RecordsOf(files[experiments[RunId].output_dir].lines)

\* C25: after a run that exited with code 0, the stored result has the loss of
\* the last parsed record as final_loss, the least loss of all parsed records
\* as best_loss and the greatest step of all parsed records as total_steps
C25_ResultFromLog ==
    (run.pc = "done" /\ run.rc = 0 /\ experiments[RunId].result # NoArg) =>
        LET res == experiments[RunId].result[1] IN
        /\ RunRecords # <<>>
        /\ res.final_loss = Last(RunRecords).loss
        /\ \A k \in 1..Len(RunRecords) : res.best_loss <= RunRecords[k].loss
        /\ \E k \in 1..Len(RunRecords) : res.best_loss = RunRecords[k].loss
        /\ \A k \in 1..Len(RunRecords) : res.total_steps >= RunRecords[k].step
        /\ \E k \in 1..Len(RunRecords) : res.total_steps = RunRecords[k].step

\* the step is create_experiment called with config c
CreateOf(c) ==
    /\ returned'.op = "create_experiment"
    /\ experiments' = DictPut(experiments, _generate_id(c),
                              NewExperiment(_generate_id(c), "run", c, <<>>, ""))
    /\ clock' = clock

\* C26: create_experiment called in another second than the one in the id of
\* an existing record, or with a config of another hash, gets another id, and
\* the existing record stays in the registry, unchanged and returned by
\* get_experiment
C26_DistinctIds ==
    [][\A c \in IdConfigs : CreateOf(c) =>
          \A id \in DOMAIN experiments :
              (id[1] # clock \/ id[2] # ConfigHash(c)) =>
                  /\ id # _generate_id(c)
                  /\ _generate_id(c) \in DOMAIN experiments'
                  /\ get_experiment(experiments', id) = Some(experiments[id])]_vars

\* the registry holds a running record and a created record of one config,
\* made in different seconds, and a record of another hash made in the second
\* of one of them
C26_Witness ==
    \E a, b, x \in DOMAIN experiments :
        /\ a[1] # b[1] /\ experiments[a].config = experiments[b].config
        /\ experiments[a].status = "running" /\ experiments[b].status = "created"
        /\ x[1] = b[1] /\ x[2] # b[2]

\* the record passes the filters of the call: the status filter when a status
\* was given, the tags filter (a tag in common) when tags were given; an
\* empty string and an empty list count as not given
PassesFilters(e, status, tags) ==
    /\ (status # NoArg /\ status[1] # "") => e.status = status[1]
    /\ (tags # NoArg /\ tags[1] # <<>>) =>
          \E t \in {tags[1][k] : k \in 1..Len(tags[1])} :
              t \in {e.tags[n] : n \in 1..Len(e.tags)}

\* C27: list_experiments returns each record that passes the filters given
\* once and no other record, latest created_at first, and leaves the registry
\* and the index file as they are
C27_ListFiltersAndOrder ==
    [][(returned'.op = "list_experiments" /\ returned' # returned) =>
          LET r == returned'.value IN
          /\ {r[k] : k \in 1..Len(r)} =
                {experiments[id] : id \in
                    {x \in DOMAIN experiments :
                        PassesFilters(experiments[x], returned'.status, returned'.tags)}}
          /\ \A i, k \in 1..Len(r) : i # k => r[i] # r[k]
          /\ \A i, k \in 1..Len(r) : i < k => r[i].created_at >= r[k].created_at
          /\ experiments' = experiments
          /\ index_file' = index_file]_vars

\* a call with both filters has returned two records of different seconds
\* while the registry holds records that fail the status filter and records
\* that fail the tags filter
C27_Witness ==
    /\ returned.op = "list_experiments"
    /\ returned.status = Some("running") /\ returned.tags = Some(<<"u", "t">>)
    /\ Len(returned.value) = 2
    /\ returned.value[1].created_at > returned.value[2].created_at
    /\ \E id \in DOMAIN experiments : experiments[id].status = "created"
    /\ \E id \in DOMAIN experiments :
          experiments[id].status = "running" /\ experiments[id].tags = <<>>

RECURSIVE Admitted(_, _)
\* of the records, in order, those whose step is above last_step and above
\* the step of every record taken before
Admitted(recs, last_step) ==
    IF recs = <<>> THEN <<>>
    ELSE IF Head(recs).step > last_step
         THEN <<Head(recs)>> \o Admitted(Tail(recs), Head(recs).step)
         ELSE Admitted(Tail(recs), last_step)

\* the history of the job when the _check_job call in progress began: the
\* history the call before it returned with
HistoryAtCall(j) == passes[j].hist

\* the lines of the log that the call in progress has dealt with
LinesDone ==
    SubSeq(files[output_dir(loop.job)].lines, 1,
           IF loop.pc = "read" THEN loop.pos - 1 ELSE loop.pos)

\* C28: a _check_job call on a job that is not running or has no log file
\* changes no history and invokes no observer; any other call appends to the
\* history it found, in file order, the parsed records whose step is above
\* the last step of that history and above every record appended before in
\* the call, appends nothing else, and returns at the end of the file
C28_CheckJob ==
    /\ [][\A j \in JobObjs :
            (PollOf(j) /\ (~is_running(j) \/ ~files[output_dir(j)].exists)) =>
                /\ loop'.pc = "iter"
                /\ metrics_history' = metrics_history
                /\ deliveries' = deliveries]_vars
    /\ [][\A j \in JobObjs :
            (PollOf(j) /\ is_running(j) /\ files[output_dir(j)].exists) =>
                loop'.pc = "read" /\ loop'.job = j /\ loop'.pos = 1]_vars
    /\ [](loop.pc \in {"read", "notify"} =>
            metrics_history[loop.job] =
                HistoryAtCall(loop.job) \o
                  Admitted(RecordsOf(LinesDone),
                           IF HistoryAtCall(loop.job) = <<>> THEN -1
                           ELSE Last(HistoryAtCall(loop.job)).step))
    /\ [][(loop.pc = "read" /\ loop'.pc = "iter") =>
            loop.pos > Len(files[output_dir(loop.job)].lines)]_vars
    /\ [][metrics_history' # metrics_history => loop.pc = "read"]_vars

\* a call that found a history has read the whole log, appended a record and
\* passed over a record
C28_Witness ==
    /\ loop.pc = "read"
    /\ loop.pos > Len(files[output_dir(loop.job)].lines)
    /\ HistoryAtCall(loop.job) # <<>>
    /\ Len(metrics_history[loop.job]) > Len(HistoryAtCall(loop.job))
    /\ Len(RecordsOf(files[output_dir(loop.job)].lines)) >
          Len(metrics_history[loop.job])

\* every record of the histories was handed to the observers registered when
\* it was appended
AllDelivered ==
    \A j \in JobObjs : \A k \in 1..Len(metrics_history[j]) :
        Len(CbsOf(deliveries, j, metrics_history[j][k].step)) >= appended[j][k]

\* C29: the flag is tested between passes only.  A pass that has begun goes
\* on to its end whatever stop() does: the thread leaves it only after
\* _check_job has run on every job of its list and the observers have been
\* invoked for every record appended, and it does come to that end.  A pass
\* begins only while the flag is set, so after stop() none begins before
\* start() is called.
C29_StopBetweenPasses ==
    /\ [][InPass => (InPass' \/ loop'.pc = "top")]_vars
    /\ [](loop.pc = "top" => (loop.polled = loop.snap /\ AllDelivered))
    /\ [][\A j \in JobObjs : (loop.pc = "read" /\ loop.job = j /\ loop'.pc = "iter") =>
            (LogSteps(output_dir(j)) # {} =>
                Last(metrics_history[j]).step = SetMax(LogSteps(output_dir(j))))]_vars
    /\ InPass ~> (loop.pc = "top")
    /\ [][(loop.pc = "top" /\ InPass') => monitoring]_vars

\* stop() has returned while the pass, over two jobs, has yet to poll the
\* second of them and to invoke the observers on a record of that job
C29_Witness ==
    /\ ~monitoring
    /\ ~stopping
    /\ monitor_thread = None
    /\ loop.pc = "iter"
    /\ Len(loop.polled) = 1
    /\ Len(loop.todo) = 1
    /\ callbacks # <<>>
    /\ metrics_history[Head(loop.todo)] = <<>>
    /\ files[output_dir(Head(loop.todo))].lines # <<>>

\* C30: when run_training_cli starts the process, the record is in the
\* registry and in the index file with status running and, when monitoring was
\* requested, the job is watched, the console observer and after it the
\* notifier, if enabled, are registered, the monitor is started and entered
\* in active_monitors; observers are registered only before the thread of the
\* monitor is started
C30_SetUpBeforeSpawn ==
    /\ [][spawned' # spawned =>
            /\ experiments[RunId].status = "running"
            /\ Persisted.status = "running"
            /\ run.monitor =>
                  /\ jobs = <<"j1">>
                  /\ callbacks = IF run.notify THEN <<"console", "notifier">>
                                 ELSE <<"console">>
                  /\ monitoring
                  /\ monitor_thread = "th"
                  /\ loop.pc \in {"top", "iter"}
                  /\ RunId \in active_monitors]_vars
    /\ [][callbacks' # callbacks => (loop.pc = "off" /\ ~monitoring)]_vars

\* the process runs with the monitor set up with both observers
C30_Witness ==
    /\ run.pc = "wait"
    /\ spawned = 1
    /\ run.monitor
    /\ run.notify
    /\ callbacks = <<"console", "notifier">>
    /\ loop.pc = "iter"

\* C31: while the flag is set the polling thread is alive, whatever the log
\* holds and whatever the observers do
C31_LoopSurvives ==
    (monitoring /\ monitor_thread # None) => loop.pc # "crashed"

\* trainer_log.jsonl exists under the output_dir of the run's experiment and
\* holds a parsed record of positive loss
LogHasPositiveLoss ==
    /\ files[experiments[RunId].output_dir].exists
    /\ \E k \in 1..Len(RunRecords) : RunRecords[k].loss > 0

\* C32: after a run that exited with code 0 the result is set exactly when
\* the log exists and holds a parsed record of positive loss, and otherwise
\* the record is completed with result None; between the write of completed
\* and the write of the result the persisted record is completed with result
\* None
C32_ResultIffPositiveLoss ==
    /\ (CallOver /\ run.rc = 0) =>
          /\ (experiments[RunId].result # NoArg) <=> LogHasPositiveLoss
          /\ (Persisted.result # NoArg) <=> LogHasPositiveLoss
          /\ ~LogHasPositiveLoss =>
                (Persisted.status = "completed" /\ Persisted.result = NoArg)
    /\ run.pc \in {"load", "set_result"} =>
          (Persisted.status = "completed" /\ Persisted.result = NoArg)

\* the flag is cleared and the polling thread has read its last line: it has
\* ended, or it is at the test of the flag, or it has polled every job of its
\* last pass
PastLastRead ==
    /\ ~monitoring
    /\ run.pc \in {"join", "done", "raised"}
    /\ ThreadDead \/ loop.pc = "top" \/ (loop.pc = "iter" /\ loop.todo = <<>>)

\* C33 as stated: a record written to the log after the last poll pass began
\* is never appended to a history nor handed to an observer of the run (every
\* line of this log is written after the last pass began)
C33_NothingAfterLastPassBegan ==
    /\ deliveries = <<>>
    /\ \A j \in JobObjs : metrics_history[j] = <<>>

\* C33: histories grow and observers are invoked only by the polling thread
\* inside a pass, never by a step of run_training_cli, stop() included, so a
\* record written after the last pass has read to the end of the log is never
\* appended nor handed to an observer
C33_OnlyInsidePass ==
    /\ [][(deliveries' # deliveries \/ metrics_history' # metrics_history) =>
            (loop.pc \in {"read", "notify"} /\ loop' # loop /\ run' = run)]_vars
    /\ [][PastLastRead =>
            /\ PastLastRead'
            /\ deliveries' = deliveries
            /\ metrics_history' = metrics_history]_vars

\* the call is over, the thread has ended, and the log holds a record of a
\* step above every step of the history, written after the last read
C33_Witness ==
    /\ run.pc = "done"
    /\ loop.pc = "exited"
    /\ callbacks # <<>>
    /\ metrics_history["j1"] # <<>>
    /\ \E s \in LogSteps("d1") : s > Last(metrics_history["j1"]).step

\* C34: no step of the monitor, the polling thread or run_training_cli changes
\* the status of a job: it is running in every state, also after the process
\* exited and stop() returned, so a pass reads the log of each job it iterates
\* over whenever the log exists
C34_JobStatusNeverChanges ==
    /\ [](\A j \in JobObjs : job_status[j] = "running")
    /\ [][job_status' = job_status]_vars
    /\ [][(/\ loop.pc = "iter"
           /\ loop.todo # <<>>
           /\ loop' # loop
           /\ files[output_dir(Head(loop.todo))].exists) =>
              (loop'.pc = "read" /\ loop'.job = Head(loop.todo))]_vars

\* the process has exited, stop() has returned, and the thread reads the log
\* of the job, still watched with status running
C34_Witness ==
    /\ run.pc = "done"
    /\ run.rc >= 0
    /\ ~monitoring
    /\ loop.pc = "read"
    /\ loop.job = "j1"
    /\ Watched("j1")
    /\ job_status["j1"] = "running"

\* C35: create_experiment called within the second and with the config of an
\* existing record returns an experiment without an error and puts its new
\* record in the place of the existing one: registry and index file hold one
\* record of that id, with status created, and status, result, notes and tags
\* of the first record are gone
C35_SecondCreateReplaces ==
    [][(/\ _generate_id("c1") \in DOMAIN experiments
        /\ returned'.op = "create_experiment") =>
           LET id == _generate_id("c1")
               e == experiments'[id]
           IN  /\ returned'.value = "Experiment"
               /\ DOMAIN experiments' = {id}
               /\ e.name = "again"
               /\ e.status = "created" /\ e.result = NoArg /\ e.completed_at = NoArg
               /\ e.notes \in {"", "m"} /\ e.tags \in {<<>>, <<"u">>}
               /\ index_file'.exists
               /\ Cardinality({k \in DOMAIN index_file'.doc :
                                  index_file'.doc[k].id = id}) = 1
               /\ _load_index(index_file')[id] = e]_vars

\* the second call has put its record, with its name, notes and tags, in the
\* place of the first
C35_Witness ==
    /\ returned.op = "create_experiment"
    /\ DOMAIN experiments = {_generate_id("c1")}
    /\ experiments[_generate_id("c1")].name = "again"
    /\ experiments[_generate_id("c1")].status = "created"
    /\ experiments[_generate_id("c1")].notes = "m"
    /\ experiments[_generate_id("c1")].tags = <<"u">>
    /\ index_file.doc[_generate_id("c1")].status = "created"

\* C36: whenever the process dies inside create_experiment, update_experiment
\* or delete_experiment, the index file holds a whole document, and a new
\* ExperimentManager loads it
C36_IndexLoadableAfterCrash ==
    /\ returned.op = "crash" => Loadable(index_file)
    /\ returned.op = "__init__" => returned.value = "ExperimentManager"

\* the status is completed or failed
Terminal(st) == st \in {"completed", "failed"}

\* a run_training_cli call has started its process and not yet left the
\* wait for it
ProcessRunning == run.pc = "wait"

\* the polling threads alive: those of the monitors of earlier runs and that
\* of the monitor of the call in progress
LiveThreads == sweep.old + (IF ThreadDead THEN 0 ELSE 1)

\* C37: a sequential sweep returns one id for each configuration in the order
\* of generation; when run_training_cli creates the next record, every record
\* made so far is in a terminal status, in the registry and in the index
\* file, and the monitor of the run before has been stopped and removed from
\* active_monitors; every process started belongs to a call that has returned
\* or to the call in progress, at most one monitor is registered or has its
\* flag set, during a call only, and at most one polling thread is alive
C37_SequentialSweep ==
    /\ []((sweep.pc = "returned" /\ sweep.sequential) =>
            /\ Len(sweep.ids) = Len(SweepConfigs)
            /\ \A k \in 1..Len(sweep.ids) :
                  sweep.ids[k][2] = ConfigHash(SweepConfigs[k]))
    /\ [](sweep.sequential =>
            \A k \in 1..Len(sweep.ids) :
                /\ sweep.ids[k][2] = ConfigHash(SweepConfigs[k])
                /\ Terminal(experiments[sweep.ids[k]].status)
                /\ Terminal(index_file.doc[sweep.ids[k]].status))
    /\ [][(sweep.sequential /\ run.pc = "idle" /\ run'.pc = "set_running") =>
            /\ \A id \in DOMAIN experiments : Terminal(experiments[id].status)
            /\ active_monitors = {}
            /\ ~monitoring
            /\ monitor_thread = None
            /\ spawned = Len(sweep.ids)]_vars
    /\ [](sweep.sequential =>
            /\ spawned <= Len(sweep.ids) + 1
            /\ ProcessRunning => spawned = Len(sweep.ids) + 1
            /\ Cardinality(active_monitors) <= 1
            /\ active_monitors # {} => (run.id # NoArg /\ active_monitors = {RunId})
            /\ (monitoring \/ active_monitors # {}) =>
                  run.pc \notin {"idle", "done", "raised"})
    /\ [](sweep.sequential => LiveThreads <= 1)

\* C38: a sweep without sequential starts a process for every configuration,
\* and every experiment whose id it returns leaves status created and gets
\* to a terminal status
C38_ParallelSweepRuns ==
    /\ []((sweep.pc = "returned" /\ ~sweep.sequential) =>
            spawned >= Len(SweepConfigs))
    /\ (sweep.pc = "returned" /\ ~sweep.sequential) ~>
            (\A k \in 1..Len(sweep.ids) : Terminal(experiments[sweep.ids[k]].status))

====
